---- MODULE Spec2Model ----
(***************************************************************************)
(* Model of the request queue of class BoringTechChoices                   *)
(* (src/06-boring-proven-tech.ts, lines 159-224): analyzeCrypto pushes a   *)
(* request and calls processQueue; processQueue drains requestQueue in     *)
(* batches of at most MAX_CONCURRENT, awaits Promise.allSettled of the     *)
(* batch and sleeps 1 s between batches while requests remain.             *)
(*                                                                         *)
(* JavaScript runs every piece of code between two awaits atomically, so   *)
(* each action below is one such piece: a call of analyzeCrypto up to the  *)
(* first await of processQueue, the settlement of one fetch, the           *)
(* continuation of one map callback, the continuation of processQueue      *)
(* after allSettled, the timer callback, and the continuation of           *)
(* processQueue after the delay.                                           *)
(***************************************************************************)
EXTENDS Integers, Sequences, FiniteSets

\* Number of analyzeCrypto calls explored.
MaxRequests == 5

\* Number of direct calls of processQueue explored (DirectSpec only).
MaxDirectCalls == 1

\* private readonly MAX_CONCURRENT = 5
MAX_CONCURRENT == 5

\* The batch sizes explored: the source's constant, and the value 2 of the
\* specification's scenario (the specification calls the size configurable).
ConcurrencyLevels == {2, MAX_CONCURRENT}

\* Arguments of analyzeCrypto(userId, query).
UserIds == {"u1"}
Queries == {"q1"}

Ids == 1..MaxRequests

VARIABLES
    maxConcurrent,  \* this.MAX_CONCURRENT of the instance
    requestQueue,   \* this.requestQueue: sequence of queued requests
    processing,     \* this.processing
    submitted,      \* number of analyzeCrypto calls made; call k creates request k
    requests,       \* requests[k]: the object pushed by the k-th analyzeCrypto call
    drains,         \* activations of processQueue that passed the guard and are suspended
                    \* (pc, batch; history: cycle = number of the drain cycle,
                    \* atDelay = value of submitted when the timer it waits for was started)
    inv,            \* inv[k]: state of the callOpenAI invocation made for request k
    invoked,        \* invoked[k]: number of callOpenAI invocations made for request k
    cb,             \* cb[k]: position of the async map callback of request k
    promise,        \* promise[k]: the promise returned by the k-th analyzeCrypto call
    settleCalls,    \* settleCalls[k]: number of request.resolve / request.reject calls
    batches,        \* history: the batches spliced so far, in order
    delayElapsed,   \* history: a setTimeout callback ran since the last batch was spliced
    cycles,         \* history: number of processQueue activations that passed the guard
    submittedAtFirstSettle, \* history: value of submitted when the first fetch settled
    directCalls     \* history: number of calls of processQueue made directly

\* The other classes of the repository that the properties are about. Each
\* has its own variables and its own specification further down; the queue's
\* actions leave them alone.
VARIABLES
    registrations,  \* GoodUserRegistration: registrations[c] is the c-th registerUser call
    goodPriceCalls, \* GoodCryptoPriceService: the getCryptoPrice calls
    priceCalls,     \* BoringTechChoices: the getCryptoPrice calls
    subscriptions,  \* PaymentSlice5: this.subscriptions
    trials,         \* PaymentSlice5: this.trials
    now,            \* PaymentSlice5: the clock read by new Date(), in ms
    paymentCalls,   \* PaymentSlice5: the calls made, suspended or finished
    wallet,         \* User: balance, dailyLimit, todaySpent of the instance
    transfers,      \* User: history of the transferMoney calls
    users,          \* SimpleSubscriptionSystem: this.users (userId -> plan)
    upgrades,       \* SimpleSubscriptionSystem: the upgrade calls made
    cache,          \* ScaleUpTechniques: this.cache
    cacheNow,       \* ScaleUpTechniques: the clock read by Date.now(), in ms
    cacheCalls      \* ScaleUpTechniques: the getCachedData calls made

queueVars == <<maxConcurrent, requestQueue, processing, submitted, requests, drains,
               inv, invoked, cb, promise, settleCalls, batches, delayElapsed,
               cycles, submittedAtFirstSettle, directCalls>>
regVars == <<registrations>>
goodPriceVars == <<goodPriceCalls>>
priceVars == <<priceCalls>>
paymentVars == <<subscriptions, trials, now, paymentCalls>>
walletVars == <<wallet, transfers>>
upgradeVars == <<users, upgrades>>
cacheVars == <<cache, cacheNow, cacheCalls>>
otherVars == <<regVars, goodPriceVars, priceVars, paymentVars, walletVars,
               upgradeVars, cacheVars>>

vars == <<maxConcurrent, requestQueue, processing, submitted, requests, drains,
          inv, invoked, cb, promise, settleCalls, batches, delayElapsed,
          cycles, submittedAtFirstSettle, directCalls, otherVars>>

(***************************************************************************)
(* The other classes right after construction.                             *)
(***************************************************************************)
\* Number of registerUser calls explored; they may overlap.
MaxRegistrations == 2
RegCalls == 1..MaxRegistrations

\* No registerUser call has been made.
RegistrationInit ==
    registrations = [c \in RegCalls |->
                        [pc |-> "unborn", warnings |-> <<>>, attempted |-> <<>>,
                         failed |-> {}, result |-> <<>>]]

GoodPriceInit == goodPriceCalls = <<>>

PriceInit == priceCalls = <<>>

\* No payment call has been made: made counts the calls, pending holds the
\* suspended activations, last is the call that finished most recently.
NoPaymentCalls ==
    [made |-> 0, pending |-> {},
     last |-> [id |-> 0, op |-> "", userId |-> "", plan |-> "",
               outcome |-> "", error |-> ""]]

PaymentInit ==
    /\ subscriptions = <<>>
    /\ trials = <<>>
    /\ now = 0
    /\ paymentCalls = NoPaymentCalls

WalletInit ==
    /\ wallet = <<>>
    /\ transfers = <<>>

\* SimpleSubscriptionSystem before this.users is filled and before any call:
\* made counts the calls, pending holds the suspended activations, charges the
\* chargeUser calls, last is the call that finished most recently.
NoUpgrades ==
    [loaded |-> FALSE, made |-> 0, pending |-> {}, charges |-> <<>>, successes |-> 0,
     last |-> [id |-> 0, userId |-> "", newPlan |-> "", outcome |-> "", error |-> ""]]

UpgradeInit ==
    /\ users = <<>>
    /\ upgrades = NoUpgrades

\* Number of getCachedData calls explored.
MaxCacheCalls == 3

CacheKeys == {"k1", "k2"}

\* 300000 // 5 minutes
FRESH_MS == 300000

\* The instants the clock takes: an entry stored at 0 is younger than
\* 300000 ms at FRESH_MS - 1 and not at FRESH_MS.
CacheInstants == {0, FRESH_MS - 1, FRESH_MS}

\* this.cache.get(key) of a key never set.
NoEntry == [present |-> FALSE, data |-> <<>>, timestamp |-> 0]

EmptyCache == [key \in CacheKeys |-> NoEntry]

\* No getCachedData call has been made: made counts the calls, fetches lists
\* the fetchFn invocations, last is the call that settled most recently.
NoCacheCalls ==
    [made |-> 0, fetches |-> <<>>,
     last |-> [id |-> 0, key |-> "", outcome |-> "", data |-> <<>>, fetched |-> FALSE]]

CacheInit ==
    /\ cache = EmptyCache
    /\ cacheNow = 0
    /\ cacheCalls = NoCacheCalls

OtherClassesInit ==
    /\ RegistrationInit
    /\ GoodPriceInit
    /\ PriceInit
    /\ PaymentInit
    /\ WalletInit
    /\ UpgradeInit
    /\ CacheInit

Min(a, b) == IF a < b THEN a ELSE b

IdsOf(s) == {s[i].id : i \in 1..Len(s)}

RemoveAt(s, i) == SubSeq(s, 1, i - 1) \o SubSeq(s, i + 1, Len(s))

\* What callOpenAI returns / throws for the invocation made for request k.
Result(k) == <<"result", k>>
Failure(k) == <<"error", k>>

\* new Promise(...): pending until resolve or reject is called.
NewPromise == [state |-> "pending", value |-> <<>>]

\* Mutant: reject() is called without the error.
RejectWithoutError(p, e) ==
    IF p.state = "pending" THEN [state |-> "rejected", value |-> <<>>] ELSE p

\* resolve(v) / reject(e) of a promise: only the first call has an effect.
Resolve(p, v) == IF p.state = "pending" THEN [state |-> "fulfilled", value |-> v] ELSE p
Reject(p, e) == IF p.state = "pending" THEN [state |-> "rejected", value |-> e] ELSE p

\* Mutant: unshift instead of push.
PushFront(q, request) == <<request>> \o q

\* this.requestQueue.push(request)
Push(q, request) == Append(q, request)

\* Mutant: the batch is one element too long.
SpliceTakenOneMore(q, n) == SubSeq(q, 1, Min(n + 1, Len(q)))

\* Mutant: slice instead of splice, nothing is removed from the queue.
SpliceRestKeepsAll(q, n) == q

\* Mutant: one element more is removed than the batch holds.
SpliceRestDropsOneMore(q, n) == SubSeq(q, Min(n, Len(q)) + 2, Len(q))

\* this.requestQueue.splice(0, n): the removed elements ...
SpliceTaken(q, n) == SubSeq(q, 1, Min(n, Len(q)))

\* ... and what stays in the array.
SpliceRest(q, n) == SubSeq(q, Min(n, Len(q)) + 1, Len(q))

\* Mutant: the guard is missing.
GuardNeverReturns(p, q) == FALSE

\* Mutant: the guard does not test this.processing.
GuardIgnoresProcessing(p, q) == Len(q) = 0

\* Mutant: the guard tests length <= 1, so a lone request does not start a drain.
GuardWaitsForTwo(p, q) == p \/ Len(q) <= 1

\* if (this.processing || this.requestQueue.length === 0) return;
GuardReturns(p, q) == p \/ Len(q) = 0

\* Mutant: Promise.race instead of Promise.allSettled.
AnySettled(batch) == \E k \in IdsOf(batch) : cb[k] = "finished"

\* Mutant: Promise.all of callbacks that do not catch: processQueue goes on only
\* if no item of the batch failed.
AllSucceeded(batch) ==
    \A k \in IdsOf(batch) : cb[k] = "finished" /\ inv[k] = "returned"

\* Promise.allSettled(batch.map(...)) has settled: every callback has finished.
AllSettled(batch) == \A k \in IdsOf(batch) : cb[k] = "finished"

\* Mutant: the delay between batches is never taken.
NeverDelays(q) == FALSE

\* Mutant: the delay is taken after every batch, also the last one.
AlwaysDelays(q) == TRUE

\* if (this.requestQueue.length > 0) await new Promise(r => setTimeout(r, 1000))
NeedsDelay(q) == Len(q) > 0

\* Mutant: processing is not reset when the loop ends.
StaysProcessing(p) == p

\* this.processing = false, after the while loop.
Released(p) == FALSE

\* The head of the while loop reached by activation i of ds, with requestQueue = q
\* and processing = p: either one batch is spliced and every callOpenAI of it is
\* started (the map callbacks run synchronously up to their first await), or the
\* loop ends and processing is reset.
LoopHead(q, p, ds, i) ==
    IF Len(q) > 0
    THEN LET batch == SpliceTaken(q, maxConcurrent)
             started == IdsOf(batch)
         IN /\ requestQueue' = SpliceRest(q, maxConcurrent)
            /\ processing' = p
            /\ drains' = [ds EXCEPT ![i] = [pc |-> "awaitBatch", batch |-> batch,
                                            cycle |-> ds[i].cycle,
                                            atDelay |-> 0]]
            /\ inv' = [k \in Ids |-> IF k \in started THEN "running" ELSE inv[k]]
            /\ invoked' = [k \in Ids |-> IF k \in started THEN invoked[k] + 1
                                                          ELSE invoked[k]]
            /\ cb' = [k \in Ids |-> IF k \in started THEN "awaiting" ELSE cb[k]]
            /\ batches' = Append(batches, [items |-> batch, paced |-> delayElapsed,
                                           cycle |-> ds[i].cycle])
            /\ delayElapsed' = FALSE
    ELSE /\ requestQueue' = q
         /\ processing' = Released(p)
         /\ drains' = RemoveAt(ds, i)
         /\ UNCHANGED <<inv, invoked, cb, batches, delayElapsed>>

\* analyzeCrypto(userId, query): push the request, then processQueue() up to its
\* first await.
AnalyzeCrypto(userId, query) ==
    /\ submitted < MaxRequests
    /\ LET k == submitted + 1
           request == [id |-> k, userId |-> userId, query |-> query]
           q == Push(requestQueue, request)
       IN /\ submitted' = k
          /\ requests' = Append(requests, request)
          /\ promise' = [promise EXCEPT ![k] = NewPromise]
          /\ IF GuardReturns(processing, q)
             THEN /\ requestQueue' = q
                  /\ UNCHANGED <<processing, drains, inv, invoked, cb, batches,
                                 delayElapsed, cycles>>
             ELSE /\ cycles' = cycles + 1
                  /\ LoopHead(q, TRUE,
                              Append(drains, [pc |-> "entered", batch |-> <<>>,
                                              cycle |-> cycles + 1,
                                              atDelay |-> 0]),
                              Len(drains) + 1)
    /\ UNCHANGED <<otherVars, maxConcurrent, directCalls, settleCalls, submittedAtFirstSettle>>

\* The fetch of callOpenAI settles: the invocation returns a result ...
CallOpenAIReturns(k) ==
    /\ inv[k] = "running"
    /\ inv' = [inv EXCEPT ![k] = "returned"]
    /\ submittedAtFirstSettle' =
           IF submittedAtFirstSettle = 0 THEN submitted ELSE submittedAtFirstSettle
    /\ UNCHANGED <<otherVars, maxConcurrent, directCalls, requestQueue, processing, submitted, requests,
                   drains, invoked, cb, promise, settleCalls, batches,
                   delayElapsed, cycles>>

\* ... or throws (network fault, response.ok false).
CallOpenAIThrows(k) ==
    /\ inv[k] = "running"
    /\ inv' = [inv EXCEPT ![k] = "threw"]
    /\ submittedAtFirstSettle' =
           IF submittedAtFirstSettle = 0 THEN submitted ELSE submittedAtFirstSettle
    /\ UNCHANGED <<otherVars, maxConcurrent, directCalls, requestQueue, processing, submitted, requests,
                   drains, invoked, cb, promise, settleCalls, batches,
                   delayElapsed, cycles>>

\* Mutant: the error is swallowed and the promise resolved.
SettleAlwaysResolves(k) == Resolve(promise[k], Result(k))

\* The promise of request k after its map callback has continued:
\* try { request.resolve(await callOpenAI(...)) } catch (e) { request.reject(e) }
Settle(k) ==
    IF inv[k] = "returned" THEN Resolve(promise[k], Result(k))
                           ELSE Reject(promise[k], Failure(k))

\* Mutant: a failure rejects every promise of the batch that is still pending
\* (one try/catch around the whole batch).
SettledByWholeBatch(k) ==
    [j \in Ids |-> IF j = k THEN Settle(k)
                   ELSE IF inv[k] = "threw" /\ cb[j] = "awaiting"
                        THEN Reject(promise[j], Failure(k))
                        ELSE promise[j]]

\* The promises changed by the continuation of the map callback of request k.
SettledBy(k) == [j \in Ids |-> IF j = k THEN Settle(k) ELSE promise[j]]

\* Mutant: the items of a batch are awaited one after the other, in array
\* order (a for loop with await instead of batch.map).
MapCallbackResumeInOrder(k) ==
    /\ cb[k] = "awaiting"
    /\ inv[k] \in {"returned", "threw"}
    /\ \A j \in Ids : (j < k /\ invoked[j] > 0) => cb[j] = "finished"
    /\ promise' = SettledBy(k)
    /\ settleCalls' = [settleCalls EXCEPT ![k] = settleCalls[k] + 1]
    /\ cb' = [cb EXCEPT ![k] = "finished"]
    /\ UNCHANGED <<otherVars, maxConcurrent, directCalls, requestQueue, processing, submitted, requests,
                   drains, inv, invoked, batches, delayElapsed, cycles,
                   submittedAtFirstSettle>>

\* The map callback of request k continues after await this.callOpenAI(...).
MapCallbackResume(k) ==
    /\ cb[k] = "awaiting"
    /\ inv[k] \in {"returned", "threw"}
    /\ promise' = SettledBy(k)
    /\ settleCalls' = [settleCalls EXCEPT ![k] = settleCalls[k] + 1]
    /\ cb' = [cb EXCEPT ![k] = "finished"]
    /\ UNCHANGED <<otherVars, maxConcurrent, directCalls, requestQueue, processing, submitted, requests,
                   drains, inv, invoked, batches, delayElapsed, cycles,
                   submittedAtFirstSettle>>

\* processQueue continues after await Promise.allSettled(...): it either starts
\* the 1 s timer or falls to the loop head, which finds the queue empty.
ProcessQueueResume(i) ==
    /\ i \in 1..Len(drains)
    /\ drains[i].pc = "awaitBatch"
    /\ AllSettled(drains[i].batch)
    /\ IF NeedsDelay(requestQueue)
       THEN /\ drains' = [drains EXCEPT ![i].pc = "awaitDelay",
                                        ![i].atDelay = submitted]
            /\ UNCHANGED <<requestQueue, processing, inv, invoked, cb, batches,
                           delayElapsed>>
       ELSE LoopHead(requestQueue, processing, drains, i)
    /\ UNCHANGED <<otherVars, maxConcurrent, directCalls, submitted, requests, promise, settleCalls,
                   cycles, submittedAtFirstSettle>>

\* The setTimeout callback runs after 1000 ms and resolves the delay promise.
TimerFires(i) ==
    /\ i \in 1..Len(drains)
    /\ drains[i].pc = "awaitDelay"
    /\ drains' = [drains EXCEPT ![i].pc = "delayDone"]
    /\ delayElapsed' = TRUE
    /\ UNCHANGED <<otherVars, maxConcurrent, directCalls, requestQueue, processing, submitted, requests,
                   inv, invoked, cb, promise, settleCalls, batches, cycles,
                   submittedAtFirstSettle>>

\* processQueue continues after the delay, at the loop head.
ProcessQueueAfterDelay(i) ==
    /\ i \in 1..Len(drains)
    /\ drains[i].pc = "delayDone"
    /\ LoopHead(requestQueue, processing, drains, i)
    /\ UNCHANGED <<otherVars, maxConcurrent, directCalls, submitted, requests, promise, settleCalls,
                   cycles, submittedAtFirstSettle>>

Init ==
    /\ maxConcurrent \in ConcurrencyLevels
    /\ requestQueue = <<>>
    /\ processing = FALSE
    /\ submitted = 0
    /\ requests = <<>>
    /\ drains = <<>>
    /\ inv = [k \in Ids |-> "none"]
    /\ invoked = [k \in Ids |-> 0]
    /\ cb = [k \in Ids |-> "none"]
    /\ promise = [k \in Ids |-> [state |-> "unborn", value |-> <<>>]]
    /\ settleCalls = [k \in Ids |-> 0]
    /\ batches = <<>>
    /\ delayElapsed = FALSE
    /\ cycles = 0
    /\ submittedAtFirstSettle = 0
    /\ directCalls = 0
    /\ OtherClassesInit

Next ==
    \/ \E userId \in UserIds, query \in Queries : AnalyzeCrypto(userId, query)
    \/ \E k \in Ids : CallOpenAIReturns(k)
    \/ \E k \in Ids : CallOpenAIThrows(k)
    \/ \E k \in Ids : MapCallbackResume(k)
    \/ \E i \in 1..MaxRequests : ProcessQueueResume(i)
    \/ \E i \in 1..MaxRequests : TimerFires(i)
    \/ \E i \in 1..MaxRequests : ProcessQueueAfterDelay(i)

Spec == Init /\ [][Next]_vars

\* Every fetch settles, every continuation runs and every timer fires; no
\* assumption is made that analyzeCrypto is called again.
Fairness ==
    /\ \A k \in Ids : WF_vars(CallOpenAIReturns(k) \/ CallOpenAIThrows(k))
    /\ \A k \in Ids : WF_vars(MapCallbackResume(k))
    /\ \A i \in 1..MaxRequests : WF_vars(ProcessQueueResume(i))
    /\ \A i \in 1..MaxRequests : WF_vars(TimerFires(i))
    /\ \A i \in 1..MaxRequests : WF_vars(ProcessQueueAfterDelay(i))

FairSpec == Spec /\ Fairness

\* processQueue() called on its own, not from analyzeCrypto: the guard, and if
\* it is passed the method up to its first await. Inside the class the method
\* is called only after a push; this action applies it to every state of the
\* queue, so also to an empty requestQueue.
ProcessQueueCall ==
    /\ directCalls < MaxDirectCalls
    /\ directCalls' = directCalls + 1
    /\ IF GuardReturns(processing, requestQueue)
       THEN UNCHANGED <<requestQueue, processing, drains, inv, invoked, cb,
                        batches, delayElapsed, cycles>>
       ELSE /\ cycles' = cycles + 1
            /\ LoopHead(requestQueue, TRUE,
                        Append(drains, [pc |-> "entered", batch |-> <<>>,
                                        cycle |-> cycles + 1,
                                        atDelay |-> 0]),
                        Len(drains) + 1)
    /\ UNCHANGED <<otherVars, maxConcurrent, submitted, requests, promise, settleCalls,
                   submittedAtFirstSettle>>

DirectNext == Next \/ ProcessQueueCall

\* The queue with direct calls of processQueue besides analyzeCrypto.
DirectSpec == Init /\ [][DirectNext]_vars

(***************************************************************************)
(* Derived views of the history used by the properties.                    *)
(***************************************************************************)

\* The ids of the requests of batch b, in the order callOpenAI was started.
BatchIds(b) == [i \in 1..Len(batches[b].items) |-> batches[b].items[i].id]

\* The ids of every batch, in the order the batches were spliced.
AllBatchIds == [b \in 1..Len(batches) |-> BatchIds(b)]

\* The number of the batch request k was dispatched in, 0 if in none.
BatchOf(k) ==
    IF \E b \in 1..Len(batches) : k \in IdsOf(batches[b].items)
    THEN CHOOSE b \in 1..Len(batches) : k \in IdsOf(batches[b].items)
    ELSE 0

\* How often request k occurs in the batches spliced so far.
TimesBatched(k) ==
    Cardinality({<<b, i>> \in (1..Len(batches)) \X (1..MaxRequests) :
                    i <= Len(batches[b].items) /\ batches[b].items[i].id = k})

\* How often request k occurs in requestQueue.
TimesQueued(k) == Cardinality({i \in 1..Len(requestQueue) : requestQueue[i].id = k})

Settled(k) == promise[k].state \in {"fulfilled", "rejected"}

InFlight == {k \in Ids : inv[k] = "running"}

IsPrefix(s, t) == Len(s) <= Len(t) /\ \A i \in 1..Len(s) : s[i] = t[i]

(***************************************************************************)
(* C1                                                                      *)
(***************************************************************************)

\* C1: every request is handed to callOpenAI at most once: a request spliced
\* into a batch is not in requestQueue any more, occurs in one batch only and
\* once in it, and every dispatched request is one that analyzeCrypto pushed.
C1_DispatchedAtMostOnce ==
    \A k \in Ids :
        /\ invoked[k] <= 1
        /\ TimesBatched(k) = invoked[k]
        /\ TimesQueued(k) <= 1
        /\ invoked[k] > 0 => TimesQueued(k) = 0
        /\ (invoked[k] > 0 \/ TimesQueued(k) > 0) => k <= submitted
        /\ \A b \in 1..Len(batches) : \A i \in 1..Len(batches[b].items) :
               batches[b].items[i].id = k => batches[b].items[i] = requests[k]

\* Two batches were dispatched and a later request still waits in the queue.
C1_Witness ==
    /\ Len(batches) >= 2
    /\ Len(requestQueue) > 0
    /\ \E k \in Ids : invoked[k] = 1 /\ Settled(k)

(***************************************************************************)
(* C2                                                                      *)
(***************************************************************************)

\* C2: under FairSpec every submitted request is eventually dispatched (once)
\* and its promise settled, whenever it was submitted: no promise stays
\* pending for ever, a settled promise stays settled, and a settled promise is
\* that of a request handed to callOpenAI once.
C2_NoRequestLost ==
    /\ \A k \in Ids : []<>(promise[k].state # "pending")
    /\ [](\A k \in Ids : Settled(k) => invoked[k] = 1)
    /\ [][\A k \in Ids : Settled(k) => Settled(k)']_vars

\* A request that joined a running drain cycle (it was submitted while
\* processing was true: its batch is not the first of its cycle) is settled, and
\* so is a request that started a new cycle after the previous one went idle.
C2_Witness ==
    /\ \E b \in 2..Len(batches) :
           /\ batches[b].cycle = batches[b - 1].cycle
           /\ \A k \in IdsOf(batches[b].items) : Settled(k)
    /\ \E b \in 2..Len(batches) :
           /\ batches[b].cycle # batches[b - 1].cycle
           /\ \A k \in IdsOf(batches[b].items) : Settled(k)

(***************************************************************************)
(* C3                                                                      *)
(***************************************************************************)

\* C3: at most MAX_CONCURRENT callOpenAI invocations are started and unsettled.
C3_BoundedInFlight == Cardinality(InFlight) <= maxConcurrent

\* The bound is met while more requests wait in the queue.
C3_Witness == Cardinality(InFlight) = maxConcurrent /\ Len(requestQueue) > 0

(***************************************************************************)
(* C4                                                                      *)
(***************************************************************************)

\* C4: while a request of some batch is in flight or its promise unsettled, no
\* later batch exists: every request of every batch but the last has settled.
C4_BatchesSequential ==
    \A b \in 1..Len(batches) : \A k \in IdsOf(batches[b].items) :
        b < Len(batches) => (inv[k] # "running" /\ Settled(k))

\* A later batch is in flight, once in the cycle of the batch before it and once
\* in a new cycle.
C4_Witness ==
    /\ Len(batches) >= 3
    /\ \E b \in 2..Len(batches) : batches[b].cycle = batches[b - 1].cycle
    /\ \E b \in 2..Len(batches) : batches[b].cycle # batches[b - 1].cycle
    /\ \E k \in IdsOf(batches[Len(batches)].items) : inv[k] = "running"

(***************************************************************************)
(* C5                                                                      *)
(***************************************************************************)

\* C5: at most one activation of processQueue is past its guard, and an
\* analyzeCrypto call made while processing is true only appends its request:
\* nothing is spliced or dispatched and processing is unchanged.
C5_SingleDrainCycle ==
    /\ [](Len(drains) <= 1)
    /\ [][(processing /\ submitted' # submitted) =>
            /\ requestQueue' = Append(requestQueue, requests'[submitted'])
            /\ UNCHANGED <<processing, drains, inv, invoked, cb, batches, cycles>>]_vars

\* A request was appended while a drain cycle is waiting for its batch.
C5_Witness ==
    /\ processing
    /\ Len(drains) = 1
    /\ drains[1].pc = "awaitBatch"
    /\ Len(requestQueue) >= 2

(***************************************************************************)
(* C6                                                                      *)
(***************************************************************************)

\* C6: dispatch is FIFO: if request j is dispatched then every request i
\* submitted before it is dispatched too, in the same batch or an earlier one,
\* and inside a batch callOpenAI is started in submission order.
C6_FifoDispatch ==
    /\ \A i, j \in Ids :
           (i < j /\ BatchOf(j) > 0) => (BatchOf(i) > 0 /\ BatchOf(i) <= BatchOf(j))
    /\ \A b \in 1..Len(batches) : \A x, y \in 1..Len(batches[b].items) :
           x < y => batches[b].items[x].id < batches[b].items[y].id

\* A batch of two requests follows an earlier batch.
C6_Witness ==
    \E b \in 2..Len(batches) : Len(batches[b].items) >= 2

(***************************************************************************)
(* C7                                                                      *)
(***************************************************************************)

\* C7: a failed item of a batch rejects its own promise only: a sibling of the
\* same batch is never rejected unless its own invocation threw, and once its
\* callback has continued it is fulfilled if its own invocation returned.
C7_FailureIsolation ==
    \A b \in 1..Len(batches) : \A k, j \in IdsOf(batches[b].items) :
        (k # j /\ inv[k] = "threw") =>
            /\ promise[j].state = "rejected" => inv[j] = "threw"
            /\ (cb[j] = "finished" /\ inv[j] = "returned") =>
                   promise[j].state = "fulfilled"

\* In one batch an item was rejected and a sibling that settled after it is
\* fulfilled.
C7_Witness ==
    \E b \in 1..Len(batches) : \E k, j \in IdsOf(batches[b].items) :
        /\ k # j
        /\ promise[k].state = "rejected"
        /\ promise[j].state = "fulfilled"

(***************************************************************************)
(* C8                                                                      *)
(***************************************************************************)

\* C8: resolve or reject is called at most once per request, only after that
\* request's callOpenAI invocation completed, and with its outcome.
C8_SettledOnceWithOwnOutcome ==
    \A k \in Ids :
        /\ settleCalls[k] <= 1
        /\ Settled(k) <=> settleCalls[k] = 1
        /\ inv[k] \in {"none", "running"} => ~Settled(k)
        /\ promise[k].state = "fulfilled" =>
               (inv[k] = "returned" /\ promise[k].value = Result(k))
        /\ promise[k].state = "rejected" =>
               (inv[k] = "threw" /\ promise[k].value = Failure(k))

\* One promise is fulfilled and another rejected.
C8_Witness ==
    \E k, j \in Ids :
        /\ promise[k].state = "fulfilled" /\ settleCalls[k] = 1
        /\ promise[j].state = "rejected" /\ settleCalls[j] = 1

(***************************************************************************)
(* C9                                                                      *)
(***************************************************************************)

\* The scenario: MAX_CONCURRENT = 2, exactly five analyzeCrypto calls a..e
\* (requests 1..5) on a fresh instance, and callOpenAI has failed for none.
Scenario ==
    /\ maxConcurrent = 2
    /\ submitted = 5
    /\ \A k \in 1..5 : inv[k] # "threw"

\* ... and the five calls were made back to back: all of them before the
\* first fetch settled.
ScenarioBurst == Scenario /\ submittedAtFirstSettle = 5

AllFiveFulfilled == \A k \in 1..5 : promise[k].state = "fulfilled"

\* C9 as stated: when the scenario has run to its end, the batches dispatched
\* were [a,b], [c,d], [e], each after the first following a pacing delay.
C9_AsStated ==
    (Scenario /\ AllFiveFulfilled /\ ~processing) =>
        /\ AllBatchIds = << <<1, 2>>, <<3, 4>>, <<5>> >>
        /\ \A b \in 2..Len(batches) : batches[b].paced

\* C9 amended: the first batch is [a] alone, because the first analyzeCrypto call
\* starts the drain cycle in its own step; with the five calls made back to
\* back the batches are [a], [b,c], [d,e] in that order, each after the first
\* following a pacing delay, and under FairSpec all five promises are
\* eventually fulfilled unless a callOpenAI fails or a sixth request arrives.
C9_BurstBatches ==
    /\ [](Scenario => (Len(batches) >= 1 /\ AllBatchIds[1] = <<1>>))
    /\ [](ScenarioBurst =>
            /\ IsPrefix(AllBatchIds, << <<1>>, <<2, 3>>, <<4, 5>> >>)
            /\ \A b \in 2..Len(batches) : batches[b].paced
            /\ ~processing => (Len(batches) = 3 /\ AllFiveFulfilled))
    /\ (ScenarioBurst ~> (AllFiveFulfilled \/ ~ScenarioBurst))

\* The burst scenario has run to its end.
C9_Witness ==
    /\ ScenarioBurst
    /\ ~processing
    /\ AllFiveFulfilled
    /\ AllBatchIds = << <<1>>, <<2, 3>>, <<4, 5>> >>

(***************************************************************************)
(* C10                                                                     *)
(***************************************************************************)

\* C10 as stated: every batch but the very first is dispatched after a pacing
\* delay elapsed since the batch before it.
C10_AsStated == \A b \in 2..Len(batches) : batches[b].paced

\* C10 amended: between two consecutive batches of the same drain cycle the
\* pacing delay elapses; the first batch of a new drain cycle is dispatched in
\* the step of the analyzeCrypto call that starts the cycle, without a delay
\* since the last batch of the cycle before.
C10_PacedInsideCycle ==
    \A b \in 2..Len(batches) :
        batches[b].paced <=> batches[b].cycle = batches[b - 1].cycle

\* A batch that followed a delay and a batch that started a new cycle.
C10_Witness ==
    /\ \E b \in 2..Len(batches) :
           batches[b].paced /\ batches[b].cycle = batches[b - 1].cycle
    /\ \E b \in 2..Len(batches) :
           ~batches[b].paced /\ batches[b].cycle # batches[b - 1].cycle

(***************************************************************************)
(* C11                                                                     *)
(***************************************************************************)

\* C11: when processQueue continues after a batch has settled, it starts the
\* delay timer and splices nothing if requestQueue is non-empty, and it goes
\* idle without a timer if requestQueue is empty; the next batch of the cycle
\* is spliced only in the step after the timer has fired, from the head of
\* requestQueue as it is then, so with the requests pushed during the delay.
C11_DelayOnlyWhenQueued ==
    /\ [][(Len(drains) = 1 /\ drains[1].pc = "awaitBatch" /\ drains' # drains) =>
            IF Len(requestQueue) > 0
            THEN /\ Len(drains') = 1 /\ drains'[1].pc = "awaitDelay"
                 /\ UNCHANGED <<requestQueue, processing, batches, inv>>
            ELSE /\ drains' = <<>> /\ ~processing'
                 /\ UNCHANGED <<requestQueue, batches, inv, delayElapsed>>]_vars
    /\ [][(Len(drains) = 1 /\ drains[1].pc = "awaitDelay" /\ drains' # drains) =>
            /\ drains'[1].pc = "delayDone" /\ delayElapsed'
            /\ UNCHANGED <<requestQueue, processing, batches, inv>>]_vars
    /\ [][(Len(drains) = 1 /\ batches' # batches) =>
            /\ drains[1].pc = "delayDone" /\ delayElapsed
            /\ batches' = Append(batches,
                   [items |-> SubSeq(requestQueue, 1,
                                     Min(maxConcurrent, Len(requestQueue))),
                    paced |-> TRUE, cycle |-> drains[1].cycle])]_vars
    /\ [][(Len(drains) = 1 /\ drains[1].pc \in {"awaitDelay", "delayDone"}
             /\ submitted' # submitted) =>
            requestQueue' = Append(requestQueue, requests'[submitted'])]_vars

\* The timer of a drain cycle has fired and a request was pushed while it ran.
C11_Witness ==
    /\ Len(drains) = 1
    /\ drains[1].pc = "delayDone"
    /\ submitted > drains[1].atDelay
    /\ requestQueue[Len(requestQueue)].id = submitted

(***************************************************************************)
(* C12                                                                     *)
(***************************************************************************)

\* C12: a request whose callOpenAI invocation failed was handed to callOpenAI
\* once, is in no batch twice and not in requestQueue again, and once its
\* callback has continued its promise is rejected with the error of that
\* invocation; when of three requests only the second fails, the first and the
\* third promise are fulfilled and the second is rejected.
C12_NoRetry ==
    /\ \A k \in Ids :
           (inv[k] = "threw" \/ promise[k].state = "rejected") =>
               /\ invoked[k] = 1
               /\ TimesBatched(k) = 1
               /\ TimesQueued(k) = 0
               /\ inv[k] = "threw"
               /\ cb[k] = "finished" =>
                      promise[k] = [state |-> "rejected", value |-> Failure(k)]
    /\ (/\ submitted = 3
        /\ inv[1] = "returned" /\ inv[2] = "threw" /\ inv[3] = "returned"
        /\ \A k \in 1..3 : cb[k] = "finished") =>
           /\ promise[1] = [state |-> "fulfilled", value |-> Result(1)]
           /\ promise[2] = [state |-> "rejected", value |-> Failure(2)]
           /\ promise[3] = [state |-> "fulfilled", value |-> Result(3)]

\* The run of three requests of which the second failed has ended.
C12_Witness ==
    /\ submitted = 3
    /\ ~processing
    /\ promise[1].state = "fulfilled"
    /\ promise[2].state = "rejected"
    /\ promise[3].state = "fulfilled"
    /\ \A k \in 1..3 : invoked[k] = 1

(***************************************************************************)
(* C13                                                                     *)
(***************************************************************************)

\* C13: the step in which a drain cycle finds requestQueue empty is the step
\* that sets processing to false (no state has the cycle ended and processing
\* still true), and processing becomes true again only in the step of an
\* analyzeCrypto call.
C13_IdleUntilNextSubmit ==
    /\ [](drains = <<>> => ~processing)
    /\ [][(drains # <<>> /\ drains' = <<>>) =>
            (processing /\ ~processing' /\ requestQueue = <<>>
               /\ requestQueue' = <<>>)]_vars
    /\ [][(processing /\ ~processing') => (drains' = <<>> /\ requestQueue = <<>>)]_vars
    /\ [][(~processing /\ processing') => submitted' = submitted + 1]_vars

\* A cycle has ended, processing is false, and requests were handled.
C13_Witness ==
    /\ ~processing
    /\ drains = <<>>
    /\ cycles >= 1
    /\ \E k \in Ids : Settled(k)

(***************************************************************************)
(* C14                                                                     *)
(***************************************************************************)

\* C14: processing is true exactly when an activation of processQueue has
\* passed the guard and has not yet found requestQueue empty at its loop head.
C14_ProcessingIffDraining == processing <=> Len(drains) >= 1

\* processing is true in a second drain cycle, after it had been false.
C14_Witness ==
    /\ processing
    /\ Len(drains) = 1
    /\ drains[1].cycle >= 2

(***************************************************************************)
(* C15                                                                     *)
(***************************************************************************)

\* Every item of the batch the drain cycle is waiting for has failed.
WholeBatchFailed ==
    /\ Len(drains) = 1
    /\ drains[1].pc = "awaitBatch"
    /\ \A k \in IdsOf(drains[1].batch) : inv[k] = "threw" /\ cb[k] = "finished"

\* C15: failures do not stop the control loop: whenever every callback of the
\* current batch has finished, whatever failed, processQueue can continue; after
\* a batch of which every item failed it starts the delay towards the next batch
\* if requests wait and goes idle otherwise; and under FairSpec a queue that is
\* processing after a failure always gets back to processing = false.
C15_LoopSurvivesFailures ==
    /\ [](\A i \in 1..Len(drains) :
            (drains[i].pc = "awaitBatch"
               /\ \A k \in IdsOf(drains[i].batch) : cb[k] = "finished")
            => ENABLED ProcessQueueResume(i))
    /\ [][(WholeBatchFailed /\ drains' # drains) =>
            IF Len(requestQueue) > 0
            THEN Len(drains') = 1 /\ drains'[1].pc = "awaitDelay" /\ processing'
            ELSE drains' = <<>> /\ ~processing']_vars
    /\ (processing /\ \E k \in Ids : inv[k] = "threw") ~> ~processing

\* A cycle went on to another batch after a batch of which every item failed,
\* and has ended.
C15_Witness ==
    /\ ~processing
    /\ \E b \in 1..Len(batches) :
           /\ b < Len(batches)
           /\ batches[b + 1].cycle = batches[b].cycle
           /\ Len(batches[b].items) >= 2
           /\ \A k \in IdsOf(batches[b].items) : promise[k].state = "rejected"

(***************************************************************************)
(* C16                                                                     *)
(***************************************************************************)

\* requestQueue at the moment of selection in a step: with the request the step
\* pushes, if it is the step of an analyzeCrypto call.
QueueAtSelection ==
    IF submitted' # submitted THEN Append(requestQueue, requests'[submitted'])
                              ELSE requestQueue

\* C16: the step that takes a batch takes exactly the first
\* min(MAX_CONCURRENT, Len(requestQueue)) requests of requestQueue, in queue
\* order, starts callOpenAI for exactly them, and leaves the other requests in
\* requestQueue in their order.
C16_BatchIsQueueHead ==
    [][batches' # batches =>
         LET q == QueueAtSelection
             n == IF Len(q) < maxConcurrent THEN Len(q) ELSE maxConcurrent
         IN /\ Len(batches') = Len(batches) + 1
            /\ SubSeq(batches', 1, Len(batches)) = batches
            /\ n >= 1
            /\ batches'[Len(batches')].items = [i \in 1..n |-> q[i]]
            /\ requestQueue' = [i \in 1..(Len(q) - n) |-> q[i + n]]
            /\ \A k \in Ids : (inv'[k] = "running" /\ inv[k] # "running")
                   <=> (\E i \in 1..n : q[i].id = k)]_vars

\* A full batch was taken from a longer queue after a shorter batch.
C16_Witness ==
    /\ Len(batches) >= 2
    /\ Len(batches[Len(batches)].items) = maxConcurrent
    /\ Len(batches[1].items) < maxConcurrent
    /\ Len(requestQueue) >= 1
    /\ requestQueue[1].id = batches[Len(batches)].items[maxConcurrent].id + 1

(***************************************************************************)
(* C17                                                                     *)
(***************************************************************************)

\* Idle: processing is false, requestQueue is empty, no activation of
\* processQueue is suspended and every promise handed out is settled.
Quiescent ==
    /\ ~processing
    /\ requestQueue = <<>>
    /\ drains = <<>>
    /\ \A k \in 1..submitted : Settled(k)

\* C17: under FairSpec, if analyzeCrypto is not called any more after its n-th
\* call, the queue reaches the idle state with all n promises settled and
\* stays in it.
C17_DrainTerminates ==
    \A n \in 0..MaxRequests :
        <>[](submitted = n) => <>[](Quiescent /\ submitted = n)

\* The queue is idle after several batches in more than one cycle.
C17_Witness ==
    /\ Quiescent
    /\ submitted >= 3
    /\ cycles >= 2
    /\ Len(batches) > cycles

(***************************************************************************)
(* C18                                                                     *)
(***************************************************************************)

\* C18: two requests of one batch settle independently: while both fetches
\* run either can settle first, with either outcome, and a callback whose own
\* fetch has settled can continue whatever the state of its sibling, so either
\* promise can be the first to settle.
C18_SettlementIndependent ==
    \A b \in 1..Len(batches) : \A k, j \in IdsOf(batches[b].items) :
        k # j =>
            /\ inv[k] = "running" =>
                   (ENABLED CallOpenAIReturns(k) /\ ENABLED CallOpenAIThrows(k))
            /\ (cb[k] = "awaiting" /\ inv[k] \in {"returned", "threw"}) =>
                   ENABLED MapCallbackResume(k)

\* The later-submitted request of a batch is settled while the fetch of an
\* earlier-submitted request of the same batch still runs.
C18_Witness ==
    \E b \in 1..Len(batches) : \E k, j \in IdsOf(batches[b].items) :
        /\ k < j
        /\ Settled(j)
        /\ inv[k] = "running"
        /\ ~Settled(k)

(***************************************************************************)
(* C19                                                                     *)
(***************************************************************************)

\* C19: under DirectSpec, a call of processQueue that finds requestQueue empty
\* returns at its guard: it dispatches nothing, starts no timer and no drain
\* cycle, and leaves processing (false when the queue is idle) and
\* requestQueue as they were.
C19_EmptyQueueNoOp ==
    [][(directCalls' # directCalls /\ requestQueue = <<>>) =>
         UNCHANGED <<requestQueue, processing, drains, inv, invoked, cb, promise,
                     batches, delayElapsed, cycles>>]_vars

\* processQueue was called on the idle, empty queue of a fresh instance, and
\* the queue is still idle and empty with nothing dispatched.
C19_Witness ==
    /\ directCalls = 1
    /\ submitted = 0
    /\ ~processing
    /\ requestQueue = <<>>
    /\ drains = <<>>
    /\ batches = <<>>

(***************************************************************************)
(* C20                                                                     *)
(***************************************************************************)

\* C20: whenever processing is false, requestQueue is empty and no callOpenAI
\* invocation started by the queue is unsettled (nor is a callback of the queue
\* still waiting to continue).
C20_IdleMeansEmpty ==
    ~processing =>
        /\ requestQueue = <<>>
        /\ InFlight = {}
        /\ \A k \in Ids : cb[k] # "awaiting"

\* The queue is idle again after two batches, one of them with a failure.
C20_Witness ==
    /\ ~processing
    /\ Len(batches) >= 2
    /\ \E k \in Ids : inv[k] = "threw"
    /\ \E k \in Ids : inv[k] = "returned"

(***************************************************************************)
(* C21                                                                     *)
(***************************************************************************)
\* The first batch of a drain cycle: the first batch of all, or one whose
\* predecessor belongs to another cycle.
FirstOfCycle(b) == b = 1 \/ batches[b - 1].cycle # batches[b].cycle

\* C21: the first batch of every drain cycle contains exactly one request,
\* whatever MAX_CONCURRENT is: the analyzeCrypto call that starts a cycle
\* splices, in its own step, a batch holding exactly the request it pushed,
\* and an analyzeCrypto call that starts no cycle adds its request to no
\* batch, so a request submitted during a cycle joins a later batch only.
C21_FirstBatchIsOne ==
    /\ [](\A b \in 1..Len(batches) :
            FirstOfCycle(b) => Len(batches[b].items) = 1)
    /\ [][submitted' = submitted + 1 =>
            IF cycles' = cycles + 1
            THEN /\ Len(batches') = Len(batches) + 1
                 /\ batches'[Len(batches')].cycle = cycles'
                 /\ Len(batches'[Len(batches')].items) = 1
                 /\ batches'[Len(batches')].items[1].id = submitted'
            ELSE /\ batches' = batches
                 /\ requestQueue'[Len(requestQueue')].id = submitted']_vars

\* Two cycles have run, and a cycle has a later batch of two or more requests.
C21_Witness ==
    /\ cycles >= 2
    /\ \E b \in 2..Len(batches) :
          /\ ~FirstOfCycle(b)
          /\ Len(batches[b].items) >= 2
    /\ \E b \in 2..Len(batches) : FirstOfCycle(b)

(***************************************************************************)
(* GoodUserRegistration (src/03-contain-blast-radius.ts, lines 20-67).     *)
(* registerUser awaits createUser and then doExtraStuff, which awaits the  *)
(* four extra operations one after another, each inside its own try/catch. *)
(* The five operations stand for external services: each either returns or *)
(* throws. Calls of registerUser may overlap; each has its own warnings    *)
(* array.                                                                  *)
(***************************************************************************)
\* The operations of doExtraStuff, in the order of its try blocks.
ExtraOps == <<"sendWelcomeEmail", "addToNewsletter", "trackAnalytics", "notifyAdmins">>

ExtraOpSet == {ExtraOps[i] : i \in 1..Len(ExtraOps)}

\* The string pushed by the catch block of each operation.
Warning(op) ==
    CASE op = "sendWelcomeEmail" -> "Welcome email failed - will retry later"
      [] op = "addToNewsletter"  -> "Newsletter signup failed"
      [] op = "trackAnalytics"   -> "Analytics tracking failed"
      [] op = "notifyAdmins"     -> "Admin notification failed"

\* Mutant: the catch block is empty.
CaughtSilently(w, op) == w

\* catch (error) { warnings.push('...') }
Caught(w, op) == Append(w, Warning(op))

IndexOf(op) == CHOOSE i \in 1..Len(ExtraOps) : ExtraOps[i] = op

\* Mutant: a failed operation ends doExtraStuff (one try block around all four).
AfterExtraStopsOnFailure(r, w, f) ==
    IF IndexOf(r.pc) < Len(ExtraOps) /\ r.pc \notin f
    THEN [r EXCEPT !.pc = ExtraOps[IndexOf(r.pc) + 1],
                   !.attempted = Append(r.attempted, ExtraOps[IndexOf(r.pc) + 1]),
                   !.warnings = w, !.failed = f]
    ELSE [r EXCEPT !.pc = "returned", !.warnings = w, !.failed = f,
                   !.result = [success |-> TRUE, warnings |-> w]]

\* Call r goes on after the try/catch of the operation it awaited, with
\* warnings w and failed operations f: the next operation is called, or
\* doExtraStuff returns and registerUser returns { success: true, warnings }.
AfterExtra(r, w, f) ==
    IF IndexOf(r.pc) < Len(ExtraOps)
    THEN [r EXCEPT !.pc = ExtraOps[IndexOf(r.pc) + 1],
                   !.attempted = Append(r.attempted, ExtraOps[IndexOf(r.pc) + 1]),
                   !.warnings = w, !.failed = f]
    ELSE [r EXCEPT !.pc = "returned", !.warnings = w, !.failed = f,
                   !.result = [success |-> TRUE, warnings |-> w]]

\* registerUser(email, password): const warnings = []; createUser is called.
RegisterUser(c) ==
    /\ registrations[c].pc = "unborn"
    /\ \A d \in RegCalls : d < c => registrations[d].pc # "unborn"
    /\ registrations' = [registrations EXCEPT ![c].pc = "createUser",
                                              ![c].attempted = <<"createUser">>]
    /\ UNCHANGED <<queueVars, goodPriceVars, priceVars, paymentVars, walletVars,
                   upgradeVars, cacheVars>>

\* createUser returned: doExtraStuff starts and calls sendWelcomeEmail.
CreateUserReturns(c) ==
    /\ registrations[c].pc = "createUser"
    /\ registrations' = [registrations EXCEPT
                            ![c].pc = ExtraOps[1],
                            ![c].attempted = Append(@, ExtraOps[1])]
    /\ UNCHANGED <<queueVars, goodPriceVars, priceVars, paymentVars, walletVars,
                   upgradeVars, cacheVars>>

\* createUser threw: nothing catches it, registerUser rejects.
CreateUserThrows(c) ==
    /\ registrations[c].pc = "createUser"
    /\ registrations' = [registrations EXCEPT ![c].pc = "threw"]
    /\ UNCHANGED <<queueVars, goodPriceVars, priceVars, paymentVars, walletVars,
                   upgradeVars, cacheVars>>

\* The awaited extra operation returned.
ExtraReturns(c) ==
    /\ registrations[c].pc \in ExtraOpSet
    /\ registrations' = [registrations EXCEPT
                            ![c] = AfterExtra(@, @.warnings, @.failed)]
    /\ UNCHANGED <<queueVars, goodPriceVars, priceVars, paymentVars, walletVars,
                   upgradeVars, cacheVars>>

\* The awaited extra operation threw: its catch block pushes a warning.
ExtraThrows(c) ==
    /\ registrations[c].pc \in ExtraOpSet
    /\ registrations' = [registrations EXCEPT
                            ![c] = AfterExtra(@, Caught(@.warnings, @.pc),
                                              @.failed \cup {@.pc})]
    /\ UNCHANGED <<queueVars, goodPriceVars, priceVars, paymentVars, walletVars,
                   upgradeVars, cacheVars>>

RegNext ==
    \/ \E c \in RegCalls : RegisterUser(c)
    \/ \E c \in RegCalls : CreateUserReturns(c)
    \/ \E c \in RegCalls : CreateUserThrows(c)
    \/ \E c \in RegCalls : ExtraReturns(c)
    \/ \E c \in RegCalls : ExtraThrows(c)

\* The queue's configuration is the source's constant in the specifications
\* of the other classes.
InitDefault == Init /\ maxConcurrent = MAX_CONCURRENT

RegSpec == InitDefault /\ [][RegNext]_vars

(***************************************************************************)
(* C22                                                                     *)
(***************************************************************************)
\* The warnings of the failed operations f, in the order of doExtraStuff.
WarningsOf(f) ==
    LET Failed(op) == op \in f
        ops == SelectSeq(ExtraOps, Failed)
    IN [i \in 1..Len(ops) |-> Warning(ops[i])]

\* C22: once createUser has succeeded registerUser never throws, whichever
\* extra operations fail; when it returns, createUser and the four extra
\* operations have each been attempted exactly once, in the order email,
\* newsletter, analytics, admin, success is true, and warnings holds exactly
\* one entry per failed operation, in that order.
C22_BlastRadiusContained ==
    \A c \in RegCalls :
        LET r == registrations[c]
        IN /\ Len(r.attempted) >= 2 => r.pc # "threw"
           /\ r.pc = "returned" =>
                 /\ r.attempted = <<"createUser">> \o ExtraOps
                 /\ r.result.success = TRUE
                 /\ r.result.warnings = WarningsOf(r.failed)
                 /\ Len(r.result.warnings) = Cardinality(r.failed)

\* A call returned after the welcome email and the analytics failed, while
\* another returned with no failure.
C22_Witness ==
    /\ registrations[1].pc = "returned"
    /\ registrations[1].failed = {"sendWelcomeEmail", "trackAnalytics"}
    /\ registrations[2].pc = "returned"
    /\ registrations[2].failed = {}

(***************************************************************************)
(* GoodCryptoPriceService (src/03-contain-blast-radius.ts, lines 81-112).  *)
(* getCryptoPrice tries CoinGecko and Coinbase, each inside its own        *)
(* try/catch (await fetch, await response.json(), then the price is read   *)
(* out of the body), and falls back to getCachedPrice. fetch and json are  *)
(* external: each resolves or rejects, and the body is any of the shapes   *)
(* below. Calls may overlap.                                               *)
(***************************************************************************)
\* Number of GoodCryptoPriceService.getCryptoPrice calls explored.
MaxGoodPriceCalls == 2

Symbols == {"bitcoin", "ethereum"}

\* Prices a body may carry.
Prices == {1, 2}

\* The sources in the order of the method's blocks.
Sources == <<"CoinGecko", "Coinbase", "Cache">>

\* return 50000; // Example cached Bitcoin price
CachedPrice == 50000

\* Shapes of the parsed body: it holds a price at the place the code reads,
\* it lacks the last property (data[symbol].usd, data.data.rates.USD), or it
\* lacks an object on the way there, and the property access throws TypeError.
Bodies == [kind : {"price"}, value : Prices]
              \cup {[kind |-> "noPrice", value |-> 0], [kind |-> "malformed", value |-> 0]}

\* JavaScript values a price can be: a number, undefined, or NaN.
Num(n) == [type |-> "number", value |-> n]
Undefined == [type |-> "undefined", value |-> 0]
NaN == [type |-> "NaN", value |-> 0]

\* data[symbol].usd, and parseFloat(data.data.rates.USD), of a body that is
\* not malformed: a missing usd reads as undefined, and parseFloat of a
\* missing USD is NaN.
PriceRead(source, body) ==
    IF body.kind = "price" THEN Num(body.value)
    ELSE IF source = "CoinGecko" THEN Undefined ELSE NaN

\* Mutant: the catch block of CoinGecko goes straight to the cache.
GoodFallbackSkipsBackup(r) ==
    [r EXCEPT !.pc = "returned",
              !.failed = @ \cup {r.source},
              !.contacted = Append(@, "Cache"),
              !.source = "Cache",
              !.result = [price |-> Num(CachedPrice), source |-> "Cache"]]

\* Mutant: the try block of Coinbase has no catch.
GoodFallbackRethrows(r) ==
    IF r.source = "CoinGecko"
    THEN [r EXCEPT !.pc = "fetch", !.source = "Coinbase",
                   !.failed = @ \cup {"CoinGecko"},
                   !.contacted = Append(@, "Coinbase")]
    ELSE [r EXCEPT !.pc = "threw", !.failed = @ \cup {"Coinbase"}]

\* The catch block of the source awaited by call r, and what follows it: after
\* CoinGecko the fetch of Coinbase is started; after Coinbase getCachedPrice
\* is read and returned.
GoodFallback(r) ==
    IF r.source = "CoinGecko"
    THEN [r EXCEPT !.pc = "fetch", !.source = "Coinbase",
                   !.failed = @ \cup {"CoinGecko"},
                   !.contacted = Append(@, "Coinbase")]
    ELSE [r EXCEPT !.pc = "returned",
                   !.failed = @ \cup {"Coinbase"},
                   !.contacted = Append(@, "Cache"),
                   !.source = "Cache",
                   !.result = [price |-> Num(CachedPrice), source |-> "Cache"]]

\* getCryptoPrice(symbol): the fetch of CoinGecko is started.
GoodGetCryptoPrice(symbol) ==
    /\ Len(goodPriceCalls) < MaxGoodPriceCalls
    /\ goodPriceCalls' = Append(goodPriceCalls,
                                [symbol |-> symbol, pc |-> "fetch",
                                 source |-> "CoinGecko",
                                 contacted |-> <<"CoinGecko">>, failed |-> {},
                                 result |-> <<>>])
    /\ UNCHANGED <<queueVars, regVars, priceVars, paymentVars, walletVars,
                   upgradeVars, cacheVars>>

\* await fetch(...) resolved: response.json() is called.
GoodFetchResolves(c) ==
    /\ c \in 1..Len(goodPriceCalls)
    /\ goodPriceCalls[c].pc = "fetch"
    /\ goodPriceCalls' = [goodPriceCalls EXCEPT ![c].pc = "json"]
    /\ UNCHANGED <<queueVars, regVars, priceVars, paymentVars, walletVars,
                   upgradeVars, cacheVars>>

\* await fetch(...) rejected.
GoodFetchRejects(c) ==
    /\ c \in 1..Len(goodPriceCalls)
    /\ goodPriceCalls[c].pc = "fetch"
    /\ goodPriceCalls' = [goodPriceCalls EXCEPT ![c] = GoodFallback(@)]
    /\ UNCHANGED <<queueVars, regVars, priceVars, paymentVars, walletVars,
                   upgradeVars, cacheVars>>

\* await response.json() resolved with body: the price is read and returned
\* with the label of the source, or the read throws and the catch block runs.
GoodJsonResolves(c, body) ==
    /\ c \in 1..Len(goodPriceCalls)
    /\ goodPriceCalls[c].pc = "json"
    /\ LET r == goodPriceCalls[c]
       IN goodPriceCalls' =
             [goodPriceCalls EXCEPT ![c] =
                 IF body.kind = "malformed"
                 THEN GoodFallback(r)
                 ELSE [r EXCEPT !.pc = "returned",
                                !.result = [price |-> PriceRead(r.source, body),
                                            source |-> r.source]]]
    /\ UNCHANGED <<queueVars, regVars, priceVars, paymentVars, walletVars,
                   upgradeVars, cacheVars>>

\* await response.json() rejected.
GoodJsonRejects(c) ==
    /\ c \in 1..Len(goodPriceCalls)
    /\ goodPriceCalls[c].pc = "json"
    /\ goodPriceCalls' = [goodPriceCalls EXCEPT ![c] = GoodFallback(@)]
    /\ UNCHANGED <<queueVars, regVars, priceVars, paymentVars, walletVars,
                   upgradeVars, cacheVars>>

GoodPriceNext ==
    \/ \E symbol \in Symbols : GoodGetCryptoPrice(symbol)
    \/ \E c \in 1..MaxGoodPriceCalls : GoodFetchResolves(c)
    \/ \E c \in 1..MaxGoodPriceCalls : GoodFetchRejects(c)
    \/ \E c \in 1..MaxGoodPriceCalls, body \in Bodies : GoodJsonResolves(c, body)
    \/ \E c \in 1..MaxGoodPriceCalls : GoodJsonRejects(c)

GoodPriceSpec == InitDefault /\ [][GoodPriceNext]_vars

(***************************************************************************)
(* C23                                                                     *)
(***************************************************************************)
\* Position in Sources of the first source outside the failed set f (the
\* cache never fails).
FirstSucceeding(f) ==
    CHOOSE i \in 1..Len(Sources) :
        /\ Sources[i] \notin f
        /\ \A j \in 1..(i - 1) : Sources[j] \in f

\* C23: getCryptoPrice never throws; the sources contacted are always an
\* initial part of CoinGecko, Coinbase, Cache, every source before the last
\* contacted one has failed, and the call returns the result of the first
\* source that did not fail, labelled with that source, having contacted no
\* source after it.
C23_FallbackInOrder ==
    \A c \in 1..Len(goodPriceCalls) :
        LET r == goodPriceCalls[c]
        IN /\ r.pc # "threw"
           /\ IsPrefix(r.contacted, Sources)
           /\ \A j \in 1..(Len(r.contacted) - 1) : r.contacted[j] \in r.failed
           /\ r.pc = "returned" =>
                 /\ r.contacted = SubSeq(Sources, 1, FirstSucceeding(r.failed))
                 /\ r.result.source = Sources[FirstSucceeding(r.failed)]
                 /\ r.result.source = "Cache" <=> r.failed = {"CoinGecko", "Coinbase"}
                 /\ r.result.source = "Cache" => r.result.price = Num(CachedPrice)
                 /\ r.result.source = "CoinGecko" =>
                       r.result.price \in {Num(p) : p \in Prices} \cup {Undefined}
                 /\ r.result.source = "Coinbase" =>
                       r.result.price \in {Num(p) : p \in Prices} \cup {NaN}

\* One call answered by Coinbase after CoinGecko failed, another answered by
\* the cache after both failed.
C23_Witness ==
    /\ Len(goodPriceCalls) = 2
    /\ goodPriceCalls[1].pc = "returned"
    /\ goodPriceCalls[1].result = [price |-> Num(2), source |-> "Coinbase"]
    /\ goodPriceCalls[2].pc = "returned"
    /\ goodPriceCalls[2].result.source = "Cache"

(***************************************************************************)
(* BoringTechChoices.getCryptoPrice and fetchFromProvider                  *)
(* (src/06-boring-proven-tech.ts, lines 70-117). The loop over             *)
(* priceProviders awaits fetchFromProvider inside a try/catch; the method  *)
(* awaits fetch (which the 5 s abort timer may reject), throws on a        *)
(* response that is not ok, awaits response.json() and reads the price.    *)
(* Calls may overlap.                                                      *)
(***************************************************************************)
\* Number of BoringTechChoices.getCryptoPrice calls explored.
MaxPriceCalls == 2

\* The names of this.priceProviders, in list order.
priceProviders == <<"CoinGecko", "CoinCap", "CryptoCompare">>

\* Parsed bodies: null, or an object whose [symbol]?.usd and
\* .data?.[0]?.priceUsd are as given.
ProviderBodies ==
    {[null |-> TRUE, usd |-> Undefined, priceUsd |-> Undefined]}
        \cup [null : {FALSE}, usd : {Undefined, Num(0), Num(1)},
              priceUsd : {Undefined, Num(2)}]

\* JavaScript truthiness of a price value.
Truthy(v) == v.type = "number" /\ v.value # 0

\* data[symbol]?.usd || data.data?.[0]?.priceUsd || 0
ExtractPrice(data) ==
    IF Truthy(data.usd) THEN data.usd
    ELSE IF Truthy(data.priceUsd) THEN data.priceUsd
    ELSE Num(0)

\* Mutant: the catch block rethrows instead of continuing with the next provider.
NextProviderGivesUp(r) ==
    [r EXCEPT !.pc = "threw", !.failed = @ \cup {priceProviders[r.i]},
              !.error = "All price providers failed"]

\* Mutant: the loop skips the provider after a failed one.
NextProviderSkipsOne(r) ==
    IF r.i + 1 < Len(priceProviders)
    THEN [r EXCEPT !.pc = "fetch", !.i = r.i + 2,
                   !.failed = @ \cup {priceProviders[r.i]},
                   !.contacted = Append(@, priceProviders[r.i + 2])]
    ELSE [r EXCEPT !.pc = "threw", !.failed = @ \cup {priceProviders[r.i]},
                   !.error = "All price providers failed"]

\* fetchFromProvider threw for provider i of call r: the catch block continues
\* the loop with the next provider, or the loop ends and the method throws.
NextProvider(r) ==
    IF r.i < Len(priceProviders)
    THEN [r EXCEPT !.pc = "fetch", !.i = r.i + 1,
                   !.failed = @ \cup {priceProviders[r.i]},
                   !.contacted = Append(@, priceProviders[r.i + 1])]
    ELSE [r EXCEPT !.pc = "threw", !.failed = @ \cup {priceProviders[r.i]},
                   !.error = "All price providers failed"]

\* getCryptoPrice(symbol): fetchFromProvider of the first provider starts its fetch.
GetCryptoPrice(symbol) ==
    /\ Len(priceCalls) < MaxPriceCalls
    /\ priceCalls' = Append(priceCalls,
                            [symbol |-> symbol, pc |-> "fetch", i |-> 1,
                             contacted |-> <<priceProviders[1]>>, failed |-> {},
                             data |-> <<>>, result |-> <<>>, error |-> ""])
    /\ UNCHANGED <<queueVars, regVars, goodPriceVars, paymentVars, walletVars,
                   upgradeVars, cacheVars>>

\* await fetch(...) resolved: a response that is not ok throws HTTP <status>,
\* otherwise response.json() is called.
FetchResolves(c, ok) ==
    /\ c \in 1..Len(priceCalls)
    /\ priceCalls[c].pc = "fetch"
    /\ priceCalls' = [priceCalls EXCEPT ![c] =
                         IF ok THEN [@ EXCEPT !.pc = "json"] ELSE NextProvider(@)]
    /\ UNCHANGED <<queueVars, regVars, goodPriceVars, paymentVars, walletVars,
                   upgradeVars, cacheVars>>

\* await fetch(...) rejected (network error, or the abort after 5 s).
FetchRejects(c) ==
    /\ c \in 1..Len(priceCalls)
    /\ priceCalls[c].pc = "fetch"
    /\ priceCalls' = [priceCalls EXCEPT ![c] = NextProvider(@)]
    /\ UNCHANGED <<queueVars, regVars, goodPriceVars, paymentVars, walletVars,
                   upgradeVars, cacheVars>>

\* await response.json() resolved with data: reading data[symbol] of null
\* throws; otherwise the price is returned by fetchFromProvider and then by
\* getCryptoPrice.
JsonResolves(c, data) ==
    /\ c \in 1..Len(priceCalls)
    /\ priceCalls[c].pc = "json"
    /\ LET r == priceCalls[c]
       IN priceCalls' = [priceCalls EXCEPT ![c] =
             IF data.null
             THEN NextProvider(r)
             ELSE [r EXCEPT !.pc = "returned", !.data = data,
                            !.result = [price |-> ExtractPrice(data),
                                        provider |-> priceProviders[r.i]]]]
    /\ UNCHANGED <<queueVars, regVars, goodPriceVars, paymentVars, walletVars,
                   upgradeVars, cacheVars>>

\* await response.json() rejected.
JsonRejects(c) ==
    /\ c \in 1..Len(priceCalls)
    /\ priceCalls[c].pc = "json"
    /\ priceCalls' = [priceCalls EXCEPT ![c] = NextProvider(@)]
    /\ UNCHANGED <<queueVars, regVars, goodPriceVars, paymentVars, walletVars,
                   upgradeVars, cacheVars>>

PriceNext ==
    \/ \E symbol \in Symbols : GetCryptoPrice(symbol)
    \/ \E c \in 1..MaxPriceCalls, ok \in BOOLEAN : FetchResolves(c, ok)
    \/ \E c \in 1..MaxPriceCalls : FetchRejects(c)
    \/ \E c \in 1..MaxPriceCalls, data \in ProviderBodies : JsonResolves(c, data)
    \/ \E c \in 1..MaxPriceCalls : JsonRejects(c)

PriceSpec == InitDefault /\ [][PriceNext]_vars

(***************************************************************************)
(* C24                                                                     *)
(***************************************************************************)
AllProviders == {priceProviders[i] : i \in 1..Len(priceProviders)}

MaxPaymentCalls == 3

Customers == {"u1", "u2"}
Plans == {"basic", "pro"}

\* 7 * 24 * 60 * 60 * 1000
TRIAL_MS == 7 * 24 * 60 * 60 * 1000

\* The instants the clock takes: a trial started at 0 is exactly 7 days old
\* at TRIAL_MS. startDate is new Date().toISOString(), which
\* new Date(startDate) reads back to the same millisecond.
Instants == {0, TRIAL_MS}

\* this.subscriptions.find(sub => sub.userId === userId && sub.active), as an
\* index; 0 when find returns undefined.
FindActive(subs, userId) ==
    LET found == {i \in 1..Len(subs) : subs[i].userId = userId /\ subs[i].active}
    IN IF found = {} THEN 0 ELSE CHOOSE i \in found : \A j \in found : i <= j

\* Mutant: find looks at the running trial only.
FindRunningTrial(ts, userId) ==
    LET found == {i \in 1..Len(ts) : ts[i].userId = userId
                                       /\ now < ts[i].startDate + TRIAL_MS}
    IN IF found = {} THEN 0 ELSE CHOOSE i \in found : \A j \in found : i <= j

\* this.trials.find(t => t.userId === userId), as an index; 0 for undefined.
FindTrial(ts, userId) ==
    LET found == {i \in 1..Len(ts) : ts[i].userId = userId}
    IN IF found = {} THEN 0 ELSE CHOOSE i \in found : \A j \in found : i <= j

\* isSubscribed(userId)
IsSubscribed(subs, userId) ==
    \E i \in 1..Len(subs) : subs[i].userId = userId /\ subs[i].active

\* Mutant: the trial still counts at the instant it ends.
IsInFreeTrialInclusive(ts, userId, t) ==
    /\ FindTrial(ts, userId) # 0
    /\ t <= ts[FindTrial(ts, userId)].startDate + TRIAL_MS

\* isInFreeTrial(userId) at time t: new Date() < trialEnd
IsInFreeTrial(ts, userId, t) ==
    /\ FindTrial(ts, userId) # 0
    /\ t < ts[FindTrial(ts, userId)].startDate + TRIAL_MS

\* The record of a call that finished.
Finished(id, op, userId, plan, outcome, error) ==
    [id |-> id, op |-> op, userId |-> userId, plan |-> plan,
     outcome |-> outcome, error |-> error]

\* A call that finishes before its first await.
FinishedAtOnce(op, userId, plan, outcome, error) ==
    [paymentCalls EXCEPT !.made = @ + 1,
                         !.last = Finished(paymentCalls.made + 1, op, userId, plan,
                                           outcome, error)]

\* A call suspended at its first await.
Suspended(op, userId, plan, pc, target) ==
    [paymentCalls EXCEPT !.made = @ + 1,
                         !.pending = @ \cup {[id |-> paymentCalls.made + 1, op |-> op,
                                              userId |-> userId, plan |-> plan,
                                              pc |-> pc, target |-> target]}]

\* The suspended activation r finishes.
Resumed(r, outcome, error) ==
    [paymentCalls EXCEPT !.pending = @ \ {r},
                         !.last = Finished(r.id, r.op, r.userId, r.plan, outcome, error)]

\* subscribe(userId, plan, paymentMethodId): createStripeCustomer is awaited.
Subscribe(userId, plan) ==
    /\ paymentCalls.made < MaxPaymentCalls
    /\ paymentCalls' = Suspended("subscribe", userId, plan, "createStripeCustomer", 0)
    /\ UNCHANGED <<subscriptions, trials, now>>
    /\ UNCHANGED <<queueVars, regVars, goodPriceVars, priceVars, walletVars,
                   upgradeVars, cacheVars>>

\* createStripeCustomer resolved: createStripeSubscription is awaited.
StripeCustomerCreated(r) ==
    /\ r \in paymentCalls.pending
    /\ r.pc = "createStripeCustomer"
    /\ paymentCalls' = [paymentCalls EXCEPT
                           !.pending = (@ \ {r}) \cup
                               {[r EXCEPT !.pc = "createStripeSubscription"]}]
    /\ UNCHANGED <<subscriptions, trials, now>>
    /\ UNCHANGED <<queueVars, regVars, goodPriceVars, priceVars, walletVars,
                   upgradeVars, cacheVars>>

\* createStripeSubscription resolved with id 'sub_' + Date.now(): the
\* subscription record is pushed and the id returned.
StripeSubscriptionCreated(r) ==
    /\ r \in paymentCalls.pending
    /\ r.pc = "createStripeSubscription"
    /\ subscriptions' = Append(subscriptions,
                               [userId |-> r.userId, plan |-> r.plan, active |-> TRUE,
                                stripeSubscriptionId |-> <<"sub_", now>>])
    /\ paymentCalls' = Resumed(r, "returned", "")
    /\ UNCHANGED <<trials, now>>
    /\ UNCHANGED <<queueVars, regVars, goodPriceVars, priceVars, walletVars,
                   upgradeVars, cacheVars>>

\* One of the two Stripe calls of subscribe rejected: the catch block throws
\* 'Payment failed. Please try again.'
StripePaymentFails(r) ==
    /\ r \in paymentCalls.pending
    /\ r.pc \in {"createStripeCustomer", "createStripeSubscription"}
    /\ paymentCalls' = Resumed(r, "threw", "Payment failed. Please try again.")
    /\ UNCHANGED <<subscriptions, trials, now>>
    /\ UNCHANGED <<queueVars, regVars, goodPriceVars, priceVars, walletVars,
                   upgradeVars, cacheVars>>

\* changePlan(userId, newPlan): without an active subscription it throws; with
\* a Stripe id updateStripeSubscription is awaited; otherwise the plan is set.
ChangePlan(userId, newPlan) ==
    /\ paymentCalls.made < MaxPaymentCalls
    /\ LET i == FindActive(subscriptions, userId)
       IN IF i = 0
          THEN /\ paymentCalls' = FinishedAtOnce("changePlan", userId, newPlan, "threw",
                                                 "No active subscription found")
               /\ UNCHANGED subscriptions
          ELSE IF subscriptions[i].stripeSubscriptionId # <<>>
          THEN /\ paymentCalls' = Suspended("changePlan", userId, newPlan,
                                            "updateStripeSubscription", i)
               /\ UNCHANGED subscriptions
          ELSE /\ paymentCalls' = FinishedAtOnce("changePlan", userId, newPlan,
                                                 "returned", "")
               /\ subscriptions' = [subscriptions EXCEPT ![i].plan = newPlan]
    /\ UNCHANGED <<trials, now>>
    /\ UNCHANGED <<queueVars, regVars, goodPriceVars, priceVars, walletVars,
                   upgradeVars, cacheVars>>

\* updateStripeSubscription resolved: subscription.plan = newPlan.
StripeUpdateDone(r) ==
    /\ r \in paymentCalls.pending
    /\ r.pc = "updateStripeSubscription"
    /\ subscriptions' = [subscriptions EXCEPT ![r.target].plan = r.plan]
    /\ paymentCalls' = Resumed(r, "returned", "")
    /\ UNCHANGED <<trials, now>>
    /\ UNCHANGED <<queueVars, regVars, goodPriceVars, priceVars, walletVars,
                   upgradeVars, cacheVars>>

\* Mutant: cancelSubscription deactivates every record of the user.
DeactivatedAll(subs, i) ==
    [j \in 1..Len(subs) |-> IF subs[j].userId = subs[i].userId
                            THEN [subs[j] EXCEPT !.active = FALSE] ELSE subs[j]]

\* subscription.active = false, on the record found.
Deactivated(subs, i) == [subs EXCEPT ![i].active = FALSE]

\* cancelSubscription(userId): without an active subscription it throws; with
\* a Stripe id cancelStripeSubscription is awaited; otherwise the record found
\* is deactivated.
CancelSubscription(userId) ==
    /\ paymentCalls.made < MaxPaymentCalls
    /\ LET i == FindActive(subscriptions, userId)
       IN IF i = 0
          THEN /\ paymentCalls' = FinishedAtOnce("cancelSubscription", userId, "", "threw",
                                                 "No active subscription found")
               /\ UNCHANGED subscriptions
          ELSE IF subscriptions[i].stripeSubscriptionId # <<>>
          THEN /\ paymentCalls' = Suspended("cancelSubscription", userId, "",
                                            "cancelStripeSubscription", i)
               /\ UNCHANGED subscriptions
          ELSE /\ paymentCalls' = FinishedAtOnce("cancelSubscription", userId, "",
                                                 "returned", "")
               /\ subscriptions' = Deactivated(subscriptions, i)
    /\ UNCHANGED <<trials, now>>
    /\ UNCHANGED <<queueVars, regVars, goodPriceVars, priceVars, walletVars,
                   upgradeVars, cacheVars>>

\* cancelStripeSubscription resolved: subscription.active = false.
StripeCancelDone(r) ==
    /\ r \in paymentCalls.pending
    /\ r.pc = "cancelStripeSubscription"
    /\ subscriptions' = Deactivated(subscriptions, r.target)
    /\ paymentCalls' = Resumed(r, "returned", "")
    /\ UNCHANGED <<trials, now>>
    /\ UNCHANGED <<queueVars, regVars, goodPriceVars, priceVars, walletVars,
                   upgradeVars, cacheVars>>

\* updateStripeSubscription or cancelStripeSubscription rejected: nothing
\* catches it, the method rejects and the record is left as it was.
StripeChangeFails(r) ==
    /\ r \in paymentCalls.pending
    /\ r.pc \in {"updateStripeSubscription", "cancelStripeSubscription"}
    /\ paymentCalls' = Resumed(r, "threw", "Stripe error")
    /\ UNCHANGED <<subscriptions, trials, now>>
    /\ UNCHANGED <<queueVars, regVars, goodPriceVars, priceVars, walletVars,
                   upgradeVars, cacheVars>>

\* startFreeTrial(userId, plan): it has no await.
StartFreeTrial(userId, plan) ==
    /\ paymentCalls.made < MaxPaymentCalls
    /\ IF FindTrial(trials, userId) # 0
       THEN /\ paymentCalls' = FinishedAtOnce("startFreeTrial", userId, plan, "threw",
                                              "Free trial already used")
            /\ UNCHANGED <<subscriptions, trials>>
       ELSE /\ trials' = Append(trials, [userId |-> userId, startDate |-> now,
                                         plan |-> plan])
            /\ subscriptions' = Append(subscriptions,
                                       [userId |-> userId, plan |-> plan, active |-> TRUE,
                                        stripeSubscriptionId |-> <<>>])
            /\ paymentCalls' = FinishedAtOnce("startFreeTrial", userId, plan,
                                              "returned", "")
    /\ UNCHANGED now
    /\ UNCHANGED <<queueVars, regVars, goodPriceVars, priceVars, walletVars,
                   upgradeVars, cacheVars>>

\* convertTrialToSubscription(userId, paymentMethodId): the two checks, then
\* subscribe(userId, trial.plan, paymentMethodId) up to its first await; the
\* activation then goes on as subscribe does and returns what it returns.
ConvertTrialToSubscription(userId) ==
    /\ paymentCalls.made < MaxPaymentCalls
    /\ LET t == FindTrial(trials, userId)
       IN IF t = 0
          THEN paymentCalls' = FinishedAtOnce("convertTrialToSubscription", userId, "",
                                              "threw", "No active trial found")
          ELSE IF ~IsInFreeTrial(trials, userId, now)
          THEN paymentCalls' = FinishedAtOnce("convertTrialToSubscription", userId, "",
                                              "threw", "Trial period expired")
          ELSE paymentCalls' = Suspended("convertTrialToSubscription", userId,
                                         trials[t].plan, "createStripeCustomer", 0)
    /\ UNCHANGED <<subscriptions, trials, now>>
    /\ UNCHANGED <<queueVars, regVars, goodPriceVars, priceVars, walletVars,
                   upgradeVars, cacheVars>>

\* Time passes.
Tick(t) ==
    /\ t > now
    /\ now' = t
    /\ UNCHANGED <<subscriptions, trials, paymentCalls>>
    /\ UNCHANGED <<queueVars, regVars, goodPriceVars, priceVars, walletVars,
                   upgradeVars, cacheVars>>

\* The customers a call is made for. The two customers are interchangeable,
\* so the first call is taken to be for u1.
Callers == IF paymentCalls.made = 0 THEN {"u1"} ELSE Customers

PaymentNext ==
    \/ \E userId \in Callers, plan \in Plans : Subscribe(userId, plan)
    \/ \E r \in paymentCalls.pending : StripeCustomerCreated(r)
    \/ \E r \in paymentCalls.pending : StripeSubscriptionCreated(r)
    \/ \E r \in paymentCalls.pending : StripePaymentFails(r)
    \/ \E userId \in Callers, plan \in Plans : ChangePlan(userId, plan)
    \/ \E r \in paymentCalls.pending : StripeUpdateDone(r)
    \/ \E userId \in Callers : CancelSubscription(userId)
    \/ \E r \in paymentCalls.pending : StripeCancelDone(r)
    \/ \E r \in paymentCalls.pending : StripeChangeFails(r)
    \/ \E userId \in Callers, plan \in Plans : StartFreeTrial(userId, plan)
    \/ \E userId \in Callers : ConvertTrialToSubscription(userId)
    \/ \E t \in Instants : Tick(t)

PaymentSpec == InitDefault /\ [][PaymentNext]_vars

(***************************************************************************)
(* Views of a step of the payment slices.                                  *)
(***************************************************************************)
\* The step makes a call of op for userId (it either finishes at once or is
\* suspended at its first await).
CallMade(op, userId) ==
    /\ paymentCalls'.made = paymentCalls.made + 1
    /\ \/ /\ paymentCalls'.last.id = paymentCalls'.made
          /\ paymentCalls'.last.op = op
          /\ paymentCalls'.last.userId = userId
       \/ \E r \in paymentCalls'.pending :
             r.id = paymentCalls'.made /\ r.op = op /\ r.userId = userId

\* The step makes a call that throws error before its first await.
ThrewAtOnce(error) ==
    /\ paymentCalls'.last.id = paymentCalls'.made
    /\ paymentCalls'.last.outcome = "threw"
    /\ paymentCalls'.last.error = error
    /\ paymentCalls'.pending = paymentCalls.pending

\* A call of op for userId finishes in the step without error.
Completed(op, userId) ==
    /\ paymentCalls'.last.id # paymentCalls.last.id
    /\ paymentCalls'.last.op = op
    /\ paymentCalls'.last.userId = userId
    /\ paymentCalls'.last.outcome = "returned"

TrialsOf(userId) == {i \in 1..Len(trials) : trials[i].userId = userId}

(***************************************************************************)
(* C25                                                                     *)
(***************************************************************************)
\* C25: startFreeTrial grants at most one trial per user over any sequence
\* of operations: trials never holds two records of one user, and once a
\* record exists for a user every startFreeTrial call for that user throws
\* 'Free trial already used' and leaves trials and subscriptions unchanged,
\* whether the trial has expired, was converted or was cancelled.
C25_OneTrialPerUser ==
    /\ [](\A u \in Customers : Cardinality(TrialsOf(u)) <= 1)
    /\ [][\A u \in Customers :
             (TrialsOf(u) # {} /\ CallMade("startFreeTrial", u)) =>
                 /\ ThrewAtOnce("Free trial already used")
                 /\ trials' = trials
                 /\ subscriptions' = subscriptions]_vars

\* A second startFreeTrial for u1 has just thrown, after the trial of u1
\* expired and its subscription was cancelled.
C25_Witness ==
    /\ paymentCalls.last.op = "startFreeTrial"
    /\ paymentCalls.last.userId = "u1"
    /\ paymentCalls.last.error = "Free trial already used"
    /\ TrialsOf("u1") # {}
    /\ ~IsInFreeTrial(trials, "u1", now)
    /\ ~IsSubscribed(subscriptions, "u1")

(***************************************************************************)
(* C26                                                                     *)
(***************************************************************************)
\* C26: after cancelSubscription(userId) completes without error,
\* isSubscribed(userId) returns false, whatever subscribe, startFreeTrial,
\* convertTrialToSubscription and changePlan calls were made for that user
\* before.
C26_CancelUnsubscribes ==
    [][\A u \in Customers :
          Completed("cancelSubscription", u) => ~IsSubscribed(subscriptions', u)]_vars

(***************************************************************************)
(* C27                                                                     *)
(***************************************************************************)
\* The activation suspended in subscribe that the step created.
NewPending == {r \in paymentCalls'.pending : r.id = paymentCalls'.made}

\* C27: convertTrialToSubscription only converts a running trial. A call for
\* a user without a trial record throws 'No active trial found'; a call made
\* 7 days or more after the trial's startDate throws 'Trial period expired';
\* in both cases no subscription record is added or modified. subscribe is
\* called exactly when the trial exists and is less than 7 days old, and with
\* the trial's plan.
C27_ConvertsRunningTrialOnly ==
    [][\A u \in Customers :
          CallMade("convertTrialToSubscription", u) =>
              LET t == FindTrial(trials, u)
              IN /\ subscriptions' = subscriptions
                 /\ trials' = trials
                 /\ t = 0 => ThrewAtOnce("No active trial found")
                 /\ (t # 0 /\ now >= trials[t].startDate + TRIAL_MS) =>
                        ThrewAtOnce("Trial period expired")
                 /\ (t # 0 /\ now < trials[t].startDate + TRIAL_MS) =>
                        /\ NewPending # {}
                        /\ \A r \in NewPending :
                              /\ r.pc = "createStripeCustomer"
                              /\ r.plan = trials[t].plan
                 /\ NewPending # {} =>
                        t # 0 /\ now < trials[t].startDate + TRIAL_MS]_vars

\* A conversion of the pro trial of u1 has subscribed u1 to pro, and a later
\* conversion, made when the trial was exactly 7 days old, has thrown.
C27_Witness ==
    /\ paymentCalls.last.op = "convertTrialToSubscription"
    /\ paymentCalls.last.error = "Trial period expired"
    /\ \E t \in TrialsOf("u1") : now = trials[t].startDate + TRIAL_MS
    /\ \E i \in 1..Len(subscriptions) :
          /\ subscriptions[i].userId = "u1"
          /\ subscriptions[i].plan = "pro"
          /\ subscriptions[i].stripeSubscriptionId # <<>>

(***************************************************************************)
(* User (src/unnamed/part_000, lines 52-73). balance, dailyLimit and       *)
(* todaySpent are JavaScript numbers, and so is the amount passed to       *)
(* transferMoney: besides the finite values it may be NaN, for which every *)
(* comparison is false and every sum is NaN. transferMoney has no await.   *)
(***************************************************************************)
\* Number of transferMoney calls explored.
MaxTransfers == 3

\* Constructor arguments, in hundreds: (10, 50, 1) is the
\* new User(1000, 5000, 100) of GoodWalletManager.getUser.
Balances == {0, 3, 10}
DailyLimits == {4, 50}
TodaySpents == {0, 1}

\* Arguments of transferMoney.
Amounts == {Num(n) : n \in {-1, 0, 1, 3, 4}} \cup {NaN}

\* a < b, a > b, a >= b, a <= b, a + b and a - b on JavaScript numbers.
JsLt(a, b) == a.type = "number" /\ b.type = "number" /\ a.value < b.value
JsGt(a, b) == a.type = "number" /\ b.type = "number" /\ a.value > b.value
JsGe(a, b) == a.type = "number" /\ b.type = "number" /\ a.value >= b.value
JsLe(a, b) == a.type = "number" /\ b.type = "number" /\ a.value <= b.value
JsAdd(a, b) ==
    IF a.type = "number" /\ b.type = "number" THEN Num(a.value + b.value) ELSE NaN
JsSub(a, b) ==
    IF a.type = "number" /\ b.type = "number" THEN Num(a.value - b.value) ELSE NaN

\* new User(balance, dailyLimit, todaySpent), with balance >= 0 and
\* todaySpent <= dailyLimit.
NewUser(balance, dailyLimit, todaySpent) ==
    /\ wallet = <<>>
    /\ balance >= 0
    /\ todaySpent <= dailyLimit
    /\ wallet' = [balance |-> Num(balance), dailyLimit |-> Num(dailyLimit),
                  todaySpent |-> Num(todaySpent)]
    /\ transfers' = [count |-> 0, amount |-> Num(0), outcome |-> "", error |-> "",
                     before |-> wallet']
    /\ UNCHANGED <<queueVars, regVars, goodPriceVars, priceVars, paymentVars,
                   upgradeVars, cacheVars>>

\* transferMoney(amount)
TransferMoney(amount) ==
    /\ wallet # <<>>
    /\ transfers.count < MaxTransfers
    /\ IF JsLt(wallet.balance, amount)
       THEN /\ wallet' = wallet
            /\ transfers' = [count |-> transfers.count + 1, amount |-> amount,
                             outcome |-> "threw", error |-> "Insufficient balance",
                             before |-> wallet]
       ELSE IF JsGt(JsAdd(wallet.todaySpent, amount), wallet.dailyLimit)
       THEN /\ wallet' = wallet
            /\ transfers' = [count |-> transfers.count + 1, amount |-> amount,
                             outcome |-> "threw", error |-> "Daily limit exceeded",
                             before |-> wallet]
       ELSE /\ wallet' = [wallet EXCEPT !.balance = JsSub(@, amount),
                                        !.todaySpent = JsAdd(@, amount)]
            /\ transfers' = [count |-> transfers.count + 1, amount |-> amount,
                             outcome |-> "returned", error |-> "",
                             before |-> wallet]
    /\ UNCHANGED <<queueVars, regVars, goodPriceVars, priceVars, paymentVars,
                   upgradeVars, cacheVars>>

WalletNext ==
    \/ \E balance \in Balances, dailyLimit \in DailyLimits, todaySpent \in TodaySpents :
          NewUser(balance, dailyLimit, todaySpent)
    \/ \E amount \in Amounts : TransferMoney(amount)

WalletSpec == InitDefault /\ [][WalletNext]_vars

(***************************************************************************)
(* C28                                                                     *)
(***************************************************************************)
\* balance >= 0 and todaySpent <= dailyLimit, as JavaScript evaluates them.
WalletLimits ==
    wallet # <<>> =>
        /\ JsGe(wallet.balance, Num(0))
        /\ JsLe(wallet.todaySpent, wallet.dailyLimit)

\* What the last transferMoney call did: a call that threw left balance and
\* todaySpent unchanged, a call that returned decreased balance and increased
\* todaySpent by exactly amount.
LastTransferExact ==
    (wallet # <<>> /\ transfers.count > 0) =>
        /\ transfers.outcome = "threw" =>
              /\ transfers.error \in {"Insufficient balance", "Daily limit exceeded"}
              /\ wallet = transfers.before
        /\ transfers.outcome = "returned" =>
              /\ wallet.balance.type = "number"
              /\ wallet.todaySpent.type = "number"
              /\ transfers.amount.type = "number"
              /\ wallet.balance.value = transfers.before.balance.value - transfers.amount.value
              /\ wallet.todaySpent.value =
                     transfers.before.todaySpent.value + transfers.amount.value

\* C28: transferMoney keeps the wallet limits as invariants: starting from
\* balance >= 0 and todaySpent <= dailyLimit, after any sequence of
\* transferMoney calls balance >= 0 and todaySpent <= dailyLimit still hold; a
\* call that throws leaves balance and todaySpent unchanged, and a successful
\* call decreases balance and increases todaySpent by exactly amount.
C28_WalletLimitsKept == WalletLimits /\ LastTransferExact

\* The same for calls whose amount is a finite number, negative ones included:
\* this holds.
FiniteTransfersKeepLimits ==
    [][(wallet # <<>> /\ WalletLimits /\ transfers'.count = transfers.count + 1
           /\ transfers'.amount.type = "number")
         => (WalletLimits' /\ LastTransferExact')]_vars

(***************************************************************************)
(* SimpleSubscriptionSystem.upgradeSubscription                            *)
(* (src/10-scale-up-before-scale-out.ts, lines 119-162); upgradeUser       *)
(* (src/unnamed/part_000, lines 293-321) is the same method but for the    *)
(* text of its error. The method looks the user up, compares the prices,   *)
(* awaits chargeUser and then sets user.plan; calls may overlap at that    *)
(* await. this.users is private and nothing in the class adds to it, so    *)
(* its content is given from outside once (LoadUsers).                     *)
(***************************************************************************)
\* Number of upgradeSubscription calls explored.
MaxUpgrades == 3

\* private planPrices = { basic: 10, pro: 50, enterprise: 200 }
planPrices == [basic |-> 10, pro |-> 50, enterprise |-> 200]

PlanNames == DOMAIN planPrices

\* The ids calls are made for: u1 is in this.users, u2 is not.
KnownUsers == {"u1"}
UpgradeUserIds == {"u1", "u2"}

\* this.users is filled: u1 is on plan.
LoadUsers(plan) ==
    /\ ~upgrades.loaded
    /\ users' = [u \in KnownUsers |-> [plan |-> plan]]
    /\ upgrades' = [upgrades EXCEPT !.loaded = TRUE]
    /\ UNCHANGED <<queueVars, regVars, goodPriceVars, priceVars, paymentVars,
                   walletVars, cacheVars>>

\* const priceDiff = newPrice - oldPrice
PriceDiff(oldPlan, newPlan) == planPrices[newPlan] - planPrices[oldPlan]

\* upgradeSubscription(userId, newPlan) up to await this.chargeUser(...).
UpgradeSubscription(userId, newPlan) ==
    /\ upgrades.loaded
    /\ upgrades.made < MaxUpgrades
    /\ LET id == upgrades.made + 1
       IN IF userId \notin DOMAIN users
          THEN upgrades' = [upgrades EXCEPT
                               !.made = id,
                               !.last = [id |-> id, userId |-> userId, newPlan |-> newPlan,
                                         outcome |-> "threw", error |-> "User not found"]]
          ELSE IF PriceDiff(users[userId].plan, newPlan) <= 0
          THEN upgrades' = [upgrades EXCEPT
                               !.made = id,
                               !.last = [id |-> id, userId |-> userId, newPlan |-> newPlan,
                                         outcome |-> "threw", error |-> "Cannot downgrade"]]
          ELSE upgrades' = [upgrades EXCEPT
                               !.made = id,
                               !.charges = Append(@, [userId |-> userId,
                                                      amount |-> PriceDiff(users[userId].plan,
                                                                           newPlan),
                                                      from |-> users[userId].plan,
                                                      to |-> newPlan]),
                               !.pending = @ \cup {[id |-> id, userId |-> userId,
                                                    newPlan |-> newPlan]}]
    /\ UNCHANGED users
    /\ UNCHANGED <<queueVars, regVars, goodPriceVars, priceVars, paymentVars,
                   walletVars, cacheVars>>

\* await this.chargeUser(...) resolved: user.plan = newPlan, the e-mail timer
\* is started and the method returns.
ChargeUserResolves(r) ==
    /\ r \in upgrades.pending
    /\ users' = [users EXCEPT ![r.userId].plan = r.newPlan]
    /\ upgrades' = [upgrades EXCEPT
                       !.pending = @ \ {r},
                       !.successes = @ + 1,
                       !.last = [id |-> r.id, userId |-> r.userId, newPlan |-> r.newPlan,
                                 outcome |-> "returned", error |-> ""]]
    /\ UNCHANGED <<queueVars, regVars, goodPriceVars, priceVars, paymentVars,
                   walletVars, cacheVars>>

\* await this.chargeUser(...) rejected: the method rejects, the plan stays.
ChargeUserRejects(r) ==
    /\ r \in upgrades.pending
    /\ upgrades' = [upgrades EXCEPT
                       !.pending = @ \ {r},
                       !.last = [id |-> r.id, userId |-> r.userId, newPlan |-> r.newPlan,
                                 outcome |-> "threw", error |-> "Charge failed"]]
    /\ UNCHANGED users
    /\ UNCHANGED <<queueVars, regVars, goodPriceVars, priceVars, paymentVars,
                   walletVars, cacheVars>>

UpgradeNext ==
    \/ \E plan \in PlanNames : LoadUsers(plan)
    \/ \E userId \in UpgradeUserIds, newPlan \in PlanNames :
          UpgradeSubscription(userId, newPlan)
    \/ \E r \in upgrades.pending : ChargeUserResolves(r)
    \/ \E r \in upgrades.pending : ChargeUserRejects(r)

UpgradeSpec == InitDefault /\ [][UpgradeNext]_vars

(***************************************************************************)
(* C29                                                                     *)
(***************************************************************************)
\* C29: subscription upgrades are strictly monotone in price: user.plan
\* changes only to a plan whose price is strictly higher than the price of the
\* plan it replaces; a call that throws (equal or cheaper plan, unknown user,
\* failed chargeUser) leaves the plan unchanged; every charge is exactly the
\* difference of the two prices; hence over basic(10) < pro(50) <
\* enterprise(200) a user is upgraded successfully at most twice.
C29_UpgradesMonotone ==
    /\ [](upgrades.loaded => upgrades.successes <= 2)
    /\ [](upgrades.loaded =>
             \A i \in 1..Len(upgrades.charges) :
                 upgrades.charges[i].amount =
                     planPrices[upgrades.charges[i].to] - planPrices[upgrades.charges[i].from])
    /\ [][upgrades.loaded =>
             /\ \A u \in KnownUsers :
                   users'[u].plan # users[u].plan =>
                       planPrices[users'[u].plan] > planPrices[users[u].plan]
             /\ (upgrades'.last.id # upgrades.last.id /\ upgrades'.last.outcome = "threw")
                    => users' = users]_vars

(***************************************************************************)
(* ScaleUpTechniques.getCachedData                                         *)
(* (src/10-scale-up-before-scale-out.ts, lines 163-178). The method reads  *)
(* the cache and either returns a resolved promise or calls fetchFn and    *)
(* chains a then-callback that stores the data; it has no other state, so  *)
(* calls made while a fetchFn is unresolved see the cache as it was.       *)
(***************************************************************************)
\* Mutant: the comparison is reversed.
FreshReversed(entry, t) == entry.present /\ t - entry.timestamp > FRESH_MS

\* cached && Date.now() - cached.timestamp < 300000
Fresh(entry, t) == entry.present /\ t - entry.timestamp < FRESH_MS

\* The fetchFn invocations for key that have not settled.
Unresolved(key) ==
    {i \in 1..Len(cacheCalls.fetches) :
        cacheCalls.fetches[i].key = key /\ cacheCalls.fetches[i].state = "pending"}

\* getCachedData(key, fetchFn): a fresh entry is returned in a resolved
\* promise; otherwise fetchFn() is called and its promise chained.
GetCachedData(key) ==
    /\ cacheCalls.made < MaxCacheCalls
    /\ LET id == cacheCalls.made + 1
       IN IF Fresh(cache[key], cacheNow)
          THEN cacheCalls' = [cacheCalls EXCEPT
                                 !.made = id,
                                 !.last = [id |-> id, key |-> key, outcome |-> "returned",
                                           data |-> cache[key].data, fetched |-> FALSE]]
          ELSE cacheCalls' = [cacheCalls EXCEPT
                                 !.made = id,
                                 !.fetches = Append(@, [id |-> id, key |-> key,
                                                        at |-> cacheNow,
                                                        state |-> "pending",
                                                        storedAt |-> 0,
                                                        unresolvedAtCall |-> Unresolved(key)])]
    /\ UNCHANGED <<cache, cacheNow>>
    /\ UNCHANGED <<queueVars, regVars, goodPriceVars, priceVars, paymentVars,
                   walletVars, upgradeVars>>

\* The promise of fetchFn resolved with data: the then-callback stores
\* { data, timestamp: Date.now() } and returns data.
FetchFnResolves(i) ==
    /\ i \in 1..Len(cacheCalls.fetches)
    /\ cacheCalls.fetches[i].state = "pending"
    /\ LET f == cacheCalls.fetches[i]
           data == <<"data", f.id>>
       IN /\ cache' = [cache EXCEPT ![f.key] = [present |-> TRUE, data |-> data,
                                                timestamp |-> cacheNow]]
          /\ cacheCalls' = [cacheCalls EXCEPT
                               !.fetches[i].state = "resolved",
                               !.fetches[i].storedAt = cacheNow,
                               !.last = [id |-> f.id, key |-> f.key, outcome |-> "returned",
                                         data |-> data, fetched |-> TRUE]]
    /\ UNCHANGED cacheNow
    /\ UNCHANGED <<queueVars, regVars, goodPriceVars, priceVars, paymentVars,
                   walletVars, upgradeVars>>

\* The promise of fetchFn rejected: the then-callback does not run.
FetchFnRejects(i) ==
    /\ i \in 1..Len(cacheCalls.fetches)
    /\ cacheCalls.fetches[i].state = "pending"
    /\ LET f == cacheCalls.fetches[i]
       IN cacheCalls' = [cacheCalls EXCEPT
                            !.fetches[i].state = "rejected",
                            !.last = [id |-> f.id, key |-> f.key, outcome |-> "threw",
                                      data |-> <<>>, fetched |-> TRUE]]
    /\ UNCHANGED <<cache, cacheNow>>
    /\ UNCHANGED <<queueVars, regVars, goodPriceVars, priceVars, paymentVars,
                   walletVars, upgradeVars>>

\* Time passes.
CacheTick(t) ==
    /\ t > cacheNow
    /\ cacheNow' = t
    /\ UNCHANGED <<cache, cacheCalls>>
    /\ UNCHANGED <<queueVars, regVars, goodPriceVars, priceVars, paymentVars,
                   walletVars, upgradeVars>>

CacheNext ==
    \/ \E key \in CacheKeys : GetCachedData(key)
    \/ \E i \in 1..MaxCacheCalls : FetchFnResolves(i)
    \/ \E i \in 1..MaxCacheCalls : FetchFnRejects(i)
    \/ \E t \in CacheInstants : CacheTick(t)

CacheSpec == InitDefault /\ [][CacheNext]_vars

(***************************************************************************)
(* C30                                                                     *)
(***************************************************************************)
\* The step is a getCachedData call for key.
CachedDataCalled(key) ==
    /\ cacheCalls'.made = cacheCalls.made + 1
    /\ \/ cacheCalls'.last.id = cacheCalls'.made /\ cacheCalls'.last.key = key
       \/ /\ Len(cacheCalls'.fetches) = Len(cacheCalls.fetches) + 1
          /\ cacheCalls'.fetches[Len(cacheCalls'.fetches)].key = key

\* What a single call does: with an entry younger than 300000 ms it returns
\* the cached data and fetchFn is not invoked; otherwise fetchFn is invoked
\* once; a settling fetchFn stores its data with the current time when it
\* resolved and nothing when it rejected.
CallsAndSettlements ==
    [][/\ \A key \in CacheKeys :
             CachedDataCalled(key) =>
                 /\ cache' = cache
                 /\ IF cache[key].present /\ cacheNow - cache[key].timestamp < FRESH_MS
                    THEN /\ cacheCalls'.fetches = cacheCalls.fetches
                         /\ cacheCalls'.last.outcome = "returned"
                         /\ cacheCalls'.last.data = cache[key].data
                    ELSE /\ Len(cacheCalls'.fetches) = Len(cacheCalls.fetches) + 1
                         /\ cacheCalls'.last = cacheCalls.last
       /\ \A i \in 1..Len(cacheCalls.fetches) :
             /\ (cacheCalls.fetches[i].state = "pending"
                    /\ cacheCalls'.fetches[i].state = "rejected") => cache' = cache
             /\ (cacheCalls.fetches[i].state = "pending"
                    /\ cacheCalls'.fetches[i].state = "resolved") =>
                   cache'[cacheCalls.fetches[i].key] =
                       [present |-> TRUE, data |-> cacheCalls'.last.data,
                        timestamp |-> cacheNow]]_vars

\* Invocation j of fetchFn was made 300000 ms or more after the data of the
\* earlier invocation i for the same key was stored.
OutsideWindow(i, j) ==
    cacheCalls.fetches[j].at - cacheCalls.fetches[i].storedAt >= FRESH_MS

\* C30: getCachedData invokes fetchFn at most once per key within any
\* 5-minute freshness window, also when calls for the same uncached key
\* overlap: no invocation is made while an earlier one for the key is
\* unresolved, and an invocation follows a resolved one for the key by
\* 300000 ms or more; a call that finds an entry younger than 300000 ms
\* returns the cached data without invoking fetchFn, and a rejected fetchFn
\* stores nothing.
C30_OncePerWindow ==
    /\ [](\A j \in 1..Len(cacheCalls.fetches) :
             /\ cacheCalls.fetches[j].unresolvedAtCall = {}
             /\ \A i \in 1..(j - 1) :
                   (cacheCalls.fetches[i].key = cacheCalls.fetches[j].key
                      /\ cacheCalls.fetches[i].state = "resolved") => OutsideWindow(i, j))
    /\ CallsAndSettlements

\* What does hold of the invocations: an invocation follows by 300000 ms or
\* more every invocation for the key that had resolved when it was made,
\* while a call made when an invocation for the key is unresolved and nothing
\* is stored for the key invokes fetchFn again.
OncePerWindowUnlessOverlapping ==
    /\ [](\A j \in 1..Len(cacheCalls.fetches) :
             \A i \in 1..(j - 1) :
                 (cacheCalls.fetches[i].key = cacheCalls.fetches[j].key
                    /\ cacheCalls.fetches[i].state = "resolved"
                    /\ i \notin cacheCalls.fetches[j].unresolvedAtCall) => OutsideWindow(i, j))
    /\ [][\A key \in CacheKeys :
             (CachedDataCalled(key) /\ Unresolved(key) # {} /\ ~cache[key].present) =>
                 Len(cacheCalls'.fetches) = Len(cacheCalls.fetches) + 1]_vars
    /\ CallsAndSettlements

====
